---------------------------- MODULE Spec2Model ----------------------------
(***************************************************************************)
(* Model of the analytics engine of                                        *)
(* src/analysis/analytics_prototype_v4_comprehensive.py                    *)
(* (class DeribitAnalyticsV4Comprehensive).                                *)
(*                                                                         *)
(* Numbers.  Python floats are modelled as exact rationals [n, d] in       *)
(* lowest terms with d > 0; float rounding error is not modelled.          *)
(* Time.  The clock is counted in whole hours since a Monday 00:00 UTC;    *)
(* every boundary the code tests (08:00 expiry, midnight, 24 h) falls on   *)
(* a whole hour.  An expiry date is the number of its day.                 *)
(* Python dicts are modelled as sequences of <<key, value>> pairs in       *)
(* insertion order, Python lists as sequences.                             *)
(***************************************************************************)
EXTENDS Integers, Sequences, FiniteSets, TLC

VARIABLES
    now,                  \* the UTC clock, datetime.now(timezone.utc), in hours
    pc,                   \* position of the running coroutine
    \* generate_key_levels
    spot_price,           \* spot_price (also the argument of the analytics functions)
    fetches,              \* state of the four coroutines handed to asyncio.gather
    stats_24h,            \* results of the four fetches ...
    instruments,          \*   (instruments: also the argument of calculate_option_levels)
    futures_trades,
    options_trades,       \*   (also the argument of analyze_complete_options_flow)
    hvl_levels,           \* result of calculate_volume_profile_levels
    option_analysis,      \* result of calculate_option_levels
    flow_levels,          \* result of analyze_complete_options_flow
    all_levels,           \* the merged dict name -> price
    key_levels,           \* the list of KeyLevel objects
    error,                \* the exception generate_key_levels ended with, or "none"
    \* calculate_option_levels
    inst_idx,             \* number of instruments the grouping loop has consumed
    current_instruments,  \* the four timeframe lists; they hold references
    dte0_instruments,     \*   (positions in instruments) to the instrument dicts
    week1_instruments,
    month1_instruments,
    last_reads,           \* the clock values the tests of the latest loop pass read
    \* locals of process_timeframe (pt_), for the strike filters examined alone
    pt_call_strikes,      \* call_strikes: strike -> summed open interest
    pt_put_strikes,       \* put_strikes
    pt_band,              \* band, the dynamic band in percent
    pt_filtered_calls,    \* filtered_calls
    pt_filtered_puts,     \* filtered_puts
    \* fetch_complete_options_trades / fetch_complete_futures_trades
    kind,                 \* "option" or "future": which of the two functions runs
    hours_back,
    chunk_hours,
    end_time,
    chunk_idx,            \* number of chunks fetched so far
    requests,             \* the time windows requested so far, oldest request first
    unique_trades,        \* trade_id -> trade
    all_trades,           \* the returned list
    first_seen,           \* history: trade_id -> the first record the API sent with it
    \* calculate_confidence examined alone
    conf_name,            \* level_name, which selects base_conf
    conf_log,             \* the (distance_pct, confidence) pairs computed so far
    \* process_timeframe examined alone
    pt_timeframe,         \* timeframe_name
    pt_result,            \* the returned tuple
    \* the expiry rules examined alone
    rule_result,          \* what the four is_... functions return for one expiry date
    \* calculate_dynamic_band examined alone
    band_iv,              \* iv_pct
    band_log,             \* the (time_to_expiry_days, band) pairs computed so far
    \* calculate_gamma_wall examined alone
    gw_result,            \* the returned dict
    \* fetch_with_retry
    max_retries,
    attempt,              \* the loop variable: attempts begun so far
    responses,            \* history: what each HTTP request met, oldest first
    retry_result          \* [state, value]: "running", "returned" with the value, "raised"

genVars == <<spot_price, fetches, stats_24h, instruments, futures_trades,
             options_trades, hvl_levels, option_analysis, flow_levels,
             all_levels, key_levels, error>>
groupVars == <<inst_idx, current_instruments, dte0_instruments,
               week1_instruments, month1_instruments, last_reads>>
filterVars == <<pt_call_strikes, pt_put_strikes, pt_band, pt_filtered_calls,
                pt_filtered_puts>>
tradeVars == <<kind, hours_back, chunk_hours, end_time, chunk_idx, requests,
               unique_trades, all_trades, first_seen>>
confVars == <<conf_name, conf_log>>
evalVars == <<pt_timeframe, pt_result, rule_result, band_iv, band_log, gw_result>>
retryVars == <<max_retries, attempt, responses, retry_result>>
vars == <<now, pc, genVars, groupVars, filterVars, tradeVars, confVars, evalVars,
          retryVars>>

-----------------------------------------------------------------------------
(* Bounds of the model *)

MaxInstruments == 2     \* longest instruments list
MaxDrift == 1           \* hours the clock may advance between two reads
MaxChunkLen == 2        \* most trades in one page of the trade tape
MaxHoursBack == 3       \* largest hours_back
MaxChunkHours == 2      \* largest chunk_hours
MaxLevels == 3          \* most entries of a merged level dict examined alone
MaxEvals == 2           \* most distances calculate_confidence is applied to
MaxTrades == 3          \* longest options tape analysed alone

-----------------------------------------------------------------------------
(* Exact rational arithmetic standing for Python float arithmetic *)

Abs(x) == IF x < 0 THEN -x ELSE x

RECURSIVE GCD(_, _)
GCD(a, b) == IF b = 0 THEN a ELSE GCD(b, a % b)

Rat(n, d) ==
    LET g == GCD(Abs(n), Abs(d))
        s == IF d < 0 THEN -1 ELSE 1
    IN  [n |-> (s * n) \div g, d |-> (s * d) \div g]

RatInt(i) == [n |-> i, d |-> 1]
RatAdd(a, b) == Rat(a.n * b.d + b.n * a.d, a.d * b.d)
RatSub(a, b) == Rat(a.n * b.d - b.n * a.d, a.d * b.d)
RatMul(a, b) == Rat(a.n * b.n, a.d * b.d)
RatDiv(a, b) == Rat(a.n * b.d, a.d * b.n)
RatLt(a, b) == a.n * b.d < b.n * a.d
RatLe(a, b) == a.n * b.d <= b.n * a.d
RatAbs(a) == [n |-> Abs(a.n), d |-> a.d]
RatMax(a, b) == IF RatLt(a, b) THEN b ELSE a
RatMin(a, b) == IF RatLt(b, a) THEN b ELSE a

-----------------------------------------------------------------------------
(* Expiry classification: is_0dte, is_current_weekly_monthly, is_1w_expiry, *)
(* is_1m_expiry.  expiry_date is <<>> (None / absent) or <<day>>; t is the  *)
(* value datetime.now(timezone.utc) returned inside the call.               *)

HoursPerDay == 24
ExpiryHour == 8
DaysPerWeek == 7
Friday == 4

\* (a - b).days of a timedelta: whole days, rounded towards minus infinity
TimedeltaDays(hours) == hours \div HoursPerDay

\* now.weekday(), Monday = 0
Weekday(t) == (t \div HoursPerDay) % DaysPerWeek

\* The 0DTE test with the 24-hour bound excluded
is_0dte_exclusive(expiry_date, t) ==
    IF expiry_date = <<>> THEN FALSE
    ELSE LET expiry_utc_8am == expiry_date[1] * HoursPerDay + ExpiryHour
             time_diff == expiry_utc_8am - t
         IN  0 < time_diff /\ time_diff < HoursPerDay

is_0dte(expiry_date, t) ==
    IF expiry_date = <<>> THEN FALSE
    ELSE LET expiry_utc_8am == expiry_date[1] * HoursPerDay + ExpiryHour
             time_diff == expiry_utc_8am - t
         IN  0 < time_diff /\ time_diff <= HoursPerDay

\* The days to Friday without the step from 0 to 7
days_until_friday_same_day(t) == (Friday - Weekday(t)) % DaysPerWeek

days_until_friday(t) ==
    LET d == (Friday - Weekday(t)) % DaysPerWeek
    IN  IF d = 0 THEN DaysPerWeek ELSE d

is_current_weekly_monthly(expiry_date, t) ==
    IF expiry_date = <<>> THEN FALSE
    ELSE LET next_friday == t + days_until_friday(t) * HoursPerDay
         IN  expiry_date[1] = next_friday \div HoursPerDay

\* The 1W test with both ends of the range excluded
is_1w_expiry_exclusive(expiry_date, t) ==
    IF expiry_date = <<>> THEN FALSE
    ELSE LET days_diff == TimedeltaDays(expiry_date[1] * HoursPerDay - t)
         IN  5 < days_diff /\ days_diff < 12

is_1w_expiry(expiry_date, t) ==
    IF expiry_date = <<>> THEN FALSE
    ELSE LET days_diff == TimedeltaDays(expiry_date[1] * HoursPerDay - t)
         IN  5 <= days_diff /\ days_diff <= 12

is_1m_expiry(expiry_date, t) ==
    IF expiry_date = <<>> THEN FALSE
    ELSE LET days_diff == TimedeltaDays(expiry_date[1] * HoursPerDay - t)
         IN  20 <= days_diff /\ days_diff <= 40

\* The four lists as one record, for the body of the grouping loop.
Groups(cur, dte0, week1, month1) ==
    [current |-> cur, dte0 |-> dte0, week1 |-> week1, month1 |-> month1]

\* A loop body in which the rules are tested one after the other without
\* elif: an instrument that meets two rules is appended twice.
GroupInstrumentNoElif(g, i, expiry_date, t) ==
    LET g1 == IF is_0dte(expiry_date, t[1])
              THEN [g EXCEPT !.dte0 = Append(@, i)] ELSE g
        g2 == IF is_current_weekly_monthly(expiry_date, t[2])
              THEN [g1 EXCEPT !.current = Append(@, i)] ELSE g1
        g3 == IF is_1w_expiry(expiry_date, t[3])
              THEN [g2 EXCEPT !.week1 = Append(@, i)] ELSE g2
    IN  IF is_1m_expiry(expiry_date, t[4])
        THEN [g3 EXCEPT !.month1 = Append(@, i)] ELSE g3

\* A loop body that tests the next-Friday anchor before the 0DTE rule
GroupInstrumentCurrentFirst(g, i, expiry_date, t) ==
    IF expiry_date = <<>> THEN g
    ELSE IF is_current_weekly_monthly(expiry_date, t[2])
         THEN [g EXCEPT !.current = Append(@, i)]
    ELSE IF is_0dte(expiry_date, t[1])
         THEN [g EXCEPT !.dte0 = Append(@, i)]
    ELSE IF is_1w_expiry(expiry_date, t[3])
         THEN [g EXCEPT !.week1 = Append(@, i)]
    ELSE IF is_1m_expiry(expiry_date, t[4])
         THEN [g EXCEPT !.month1 = Append(@, i)]
    ELSE [g EXCEPT !.current = Append(@, i)]

\* One pass of the body of "for instrument in instruments" for the
\* instrument at position i; t[1..4] are the clock values the four tests read.
GroupInstrument(g, i, expiry_date, t) ==
    IF expiry_date = <<>> THEN g
    ELSE IF is_0dte(expiry_date, t[1])
         THEN [g EXCEPT !.dte0 = Append(@, i)]
    ELSE IF is_current_weekly_monthly(expiry_date, t[2])
         THEN [g EXCEPT !.current = Append(@, i)]
    ELSE IF is_1w_expiry(expiry_date, t[3])
         THEN [g EXCEPT !.week1 = Append(@, i)]
    ELSE IF is_1m_expiry(expiry_date, t[4])
         THEN [g EXCEPT !.month1 = Append(@, i)]
    ELSE [g EXCEPT !.current = Append(@, i)]

\* Non-decreasing clock readings of one loop pass, starting at t0.
ClockReads(t0) ==
    {t \in [1..4 -> t0..(t0 + MaxDrift)] : \A k \in 1..3 : t[k] <= t[k + 1]}

-----------------------------------------------------------------------------
(* Instruments as fetch_instruments_summary hands them on: the fields of   *)
(* parse_instrument_name plus open_interest and mark_iv.                    *)

Instrument(expiry_date, strike, option_type, open_interest, mark_iv) ==
    [expiry_date |-> expiry_date, strike |-> strike, option_type |-> option_type,
     open_interest |-> open_interest, mark_iv |-> mark_iv]

\* instrument.get("is_call"): parse_instrument_name sets it to option_type == "C"
is_call(instrument) == instrument.option_type = "C"

\* All sequences over S of length at most n
SeqsUpTo(S, n) == UNION {[1..k -> S] : k \in 0..n}

-----------------------------------------------------------------------------
(* Python dicts (insertion ordered), sorting, max and sum *)

DictHas(d, k) == \E i \in DOMAIN d : d[i][1] = k
DictIndex(d, k) == CHOOSE i \in DOMAIN d : d[i][1] = k
DictGet(d, k, default) == IF DictHas(d, k) THEN d[DictIndex(d, k)][2] ELSE default
\* d[k] = v: a key already present keeps its place
DictSet(d, k, v) ==
    IF DictHas(d, k) THEN [d EXCEPT ![DictIndex(d, k)] = <<k, v>>]
    ELSE Append(d, <<k, v>>)

RECURSIVE DictUpdate(_, _)
DictUpdate(d, e) ==
    IF Len(e) = 0 THEN d
    ELSE DictUpdate(DictSet(d, e[1][1], e[1][2]), Tail(e))

DictKeys(d) == [i \in 1..Len(d) |-> d[i][1]]
DictValues(d) == [i \in 1..Len(d) |-> d[i][2]]

\* list.sort / sorted: a stable sort; Before(a, b) holds when a's key sorts
\* strictly before b's.
StableSort(items, Before(_, _)) ==
    LET n == Len(items)
        rank(i) == 1 + Cardinality({j \in 1..n :
                        \/ Before(items[j], items[i])
                        \/ (~Before(items[i], items[j]) /\ j < i)})
    IN  [r \in 1..n |-> items[CHOOSE i \in 1..n : rank(i) = r]]

\* max(items, key=...): the first item whose key no other item's key
\* exceeds.  Only used on a non-empty sequence.
MaxFirst(items, Less(_, _)) ==
    items[CHOOSE i \in 1..Len(items) :
            /\ \A j \in 1..Len(items) : ~Less(items[i], items[j])
            /\ \A j \in 1..(i - 1) : Less(items[j], items[i])]

RECURSIVE SumSeq(_)
SumSeq(s) == IF Len(s) = 0 THEN 0 ELSE s[1] + SumSeq(Tail(s))

RECURSIVE RatSumSeq(_)
RatSumSeq(s) == IF Len(s) = 0 THEN RatInt(0) ELSE RatAdd(s[1], RatSumSeq(Tail(s)))

Take(s, n) == SubSeq(s, 1, IF Len(s) < n THEN Len(s) ELSE n)

-----------------------------------------------------------------------------
(* calculate_option_levels: its helper functions.  spot_price, a variable  *)
(* of the enclosing function in the code, is passed as spot.               *)

TopStrikes == 10

get_avg_iv(iv_list, fallback) ==
    LET valid_ivs == SelectSeq(iv_list, LAMBDA iv : iv > 0)
    IN  IF Len(valid_ivs) = 0 THEN fallback
        ELSE Rat(SumSeq(valid_ivs), Len(valid_ivs))

\* The band with a time factor that is not capped at 2.0
calculate_dynamic_band_uncapped(iv_pct, time_to_expiry_days) ==
    LET base_band == RatMax(RatInt(10), RatMin(RatInt(50), RatMul(iv_pct, Rat(3, 10))))
        time_factor ==
            IF RatLe(time_to_expiry_days, RatInt(1)) THEN RatInt(1)
            ELSE IF RatLe(time_to_expiry_days, RatInt(7)) THEN Rat(12, 10)
            ELSE RatAdd(RatInt(1),
                        RatDiv(RatSub(time_to_expiry_days, RatInt(7)), RatInt(20)))
    IN  RatMul(base_band, time_factor)

calculate_dynamic_band(iv_pct, time_to_expiry_days) ==
    LET base_band == RatMax(RatInt(10), RatMin(RatInt(50), RatMul(iv_pct, Rat(3, 10))))
        time_factor ==
            IF RatLe(time_to_expiry_days, RatInt(1)) THEN RatInt(1)
            ELSE IF RatLe(time_to_expiry_days, RatInt(7)) THEN Rat(12, 10)
            ELSE RatMin(RatInt(2),
                        RatAdd(RatInt(1),
                               RatDiv(RatSub(time_to_expiry_days, RatInt(7)), RatInt(20))))
    IN  RatMul(base_band, time_factor)

calculate_atm_iv(instruments_list, spot) ==
    IF Len(instruments_list) = 0 THEN RatInt(50)
    ELSE LET atm == SelectSeq(instruments_list, LAMBDA inst :
                        /\ RatLt(Rat(Abs(inst.strike - spot), spot), Rat(5, 100))
                        /\ inst.mark_iv > 0)
         IN  get_avg_iv([k \in 1..Len(atm) |-> atm[k].mark_iv], RatInt(50))

\* spot_price * (1 + band/100) and spot_price * (1 - band/100)
BandUpper(spot, band) == RatMul(RatInt(spot), RatAdd(RatInt(1), RatDiv(band, RatInt(100))))
BandLower(spot, band) == RatMul(RatInt(spot), RatSub(RatInt(1), RatDiv(band, RatInt(100))))

\* The call filter with the lower comparison written >= instead of >.
filter_call_strikes_ge(strikes_dict, band, spot) ==
    LET filtered_items == SelectSeq(strikes_dict, LAMBDA it :
                              /\ it[1] >= spot
                              /\ RatLe(RatInt(it[1]), BandUpper(spot, band)))
        sorted == StableSort(filtered_items, LAMBDA a, b : a[1] < b[1])
    IN  DictUpdate(<<>>, Take(sorted, TopStrikes))

filter_call_strikes(strikes_dict, band, spot) ==
    LET filtered_items == SelectSeq(strikes_dict, LAMBDA it :
                              /\ it[1] > spot
                              /\ RatLe(RatInt(it[1]), BandUpper(spot, band)))
        sorted == StableSort(filtered_items, LAMBDA a, b : a[1] < b[1])
    IN  DictUpdate(<<>>, Take(sorted, TopStrikes))

filter_put_strikes(strikes_dict, band, spot) ==
    LET filtered_items == SelectSeq(strikes_dict, LAMBDA it :
                              /\ it[1] < spot
                              /\ RatLe(BandLower(spot, band), RatInt(it[1])))
        sorted == StableSort(filtered_items, LAMBDA a, b : a[1] > b[1])
    IN  DictUpdate(<<>>, Take(sorted, TopStrikes))

\* The first loop of process_timeframe: open interest summed per strike,
\* calls and "not calls" apart; acc is [calls, puts].
RECURSIVE SumOpenInterest(_, _)
SumOpenInterest(instruments_list, acc) ==
    IF Len(instruments_list) = 0 THEN acc
    ELSE LET instrument == instruments_list[1]
             strike == instrument.strike
             oi == instrument.open_interest
             next == IF oi <= 0 THEN acc
                     ELSE IF is_call(instrument)
                          THEN [acc EXCEPT !.calls =
                                   DictSet(@, strike, DictGet(@, strike, 0) + oi)]
                          ELSE [acc EXCEPT !.puts =
                                   DictSet(@, strike, DictGet(@, strike, 0) + oi)]
         IN  SumOpenInterest(Tail(instruments_list), next)

CallResistanceName(timeframe_name) ==
    CASE timeframe_name = "" -> "Call Resistance"
      [] timeframe_name = "0DTE" -> "Call Resistance 0DTE"
      [] timeframe_name = "1W" -> "Call Resistance 1W"
      [] timeframe_name = "1M" -> "Call Resistance 1M"

PutSupportName(timeframe_name) ==
    CASE timeframe_name = "" -> "Put Support"
      [] timeframe_name = "0DTE" -> "Put Support 0DTE"
      [] timeframe_name = "1W" -> "Put Support 1W"
      [] timeframe_name = "1M" -> "Put Support 1M"

\* process_timeframe with the levels taken from the strikes before the band
\* filter
process_timeframe_unfiltered(instruments_list, timeframe_name, band, spot) ==
    LET acc == SumOpenInterest(instruments_list, [calls |-> <<>>, puts |-> <<>>])
        filtered_calls == filter_call_strikes(acc.calls, band, spot)
        filtered_puts == filter_put_strikes(acc.puts, band, spot)
        byOI(a, b) == a[2] < b[2]
        l1 == IF Len(filtered_calls) > 0
              THEN DictSet(<<>>, CallResistanceName(timeframe_name),
                           RatInt(MaxFirst(acc.calls, byOI)[1]))
              ELSE <<>>
        l2 == IF Len(filtered_puts) > 0
              THEN DictSet(l1, PutSupportName(timeframe_name),
                           RatInt(MaxFirst(acc.puts, byOI)[1]))
              ELSE l1
    IN  [levels |-> l2,
         n_calls |-> Len(filtered_calls), n_puts |-> Len(filtered_puts),
         call_oi |-> SumSeq(DictValues(filtered_calls)),
         put_oi |-> SumSeq(DictValues(filtered_puts))]

\* process_timeframe with the open interest totals taken over all strikes
\* instead of the filtered ones
process_timeframe_all_oi(instruments_list, timeframe_name, band, spot) ==
    LET acc == SumOpenInterest(instruments_list, [calls |-> <<>>, puts |-> <<>>])
        filtered_calls == filter_call_strikes(acc.calls, band, spot)
        filtered_puts == filter_put_strikes(acc.puts, band, spot)
        byOI(a, b) == a[2] < b[2]
        l1 == IF Len(filtered_calls) > 0
              THEN DictSet(<<>>, CallResistanceName(timeframe_name),
                           RatInt(MaxFirst(filtered_calls, byOI)[1]))
              ELSE <<>>
        l2 == IF Len(filtered_puts) > 0
              THEN DictSet(l1, PutSupportName(timeframe_name),
                           RatInt(MaxFirst(filtered_puts, byOI)[1]))
              ELSE l1
    IN  [levels |-> l2,
         n_calls |-> Len(filtered_calls), n_puts |-> Len(filtered_puts),
         call_oi |-> SumSeq(DictValues(acc.calls)),
         put_oi |-> SumSeq(DictValues(acc.puts))]

\* Returns the tuple of the code as a record
\* [levels, n_calls, n_puts, call_oi, put_oi]; level prices are rationals.
process_timeframe(instruments_list, timeframe_name, band, spot) ==
    LET acc == SumOpenInterest(instruments_list, [calls |-> <<>>, puts |-> <<>>])
        filtered_calls == filter_call_strikes(acc.calls, band, spot)
        filtered_puts == filter_put_strikes(acc.puts, band, spot)
        byOI(a, b) == a[2] < b[2]
        l1 == IF Len(filtered_calls) > 0
              THEN DictSet(<<>>, CallResistanceName(timeframe_name),
                           RatInt(MaxFirst(filtered_calls, byOI)[1]))
              ELSE <<>>
        l2 == IF Len(filtered_puts) > 0
              THEN DictSet(l1, PutSupportName(timeframe_name),
                           RatInt(MaxFirst(filtered_puts, byOI)[1]))
              ELSE l1
    IN  [levels |-> l2,
         n_calls |-> Len(filtered_calls), n_puts |-> Len(filtered_puts),
         call_oi |-> SumSeq(DictValues(filtered_calls)),
         put_oi |-> SumSeq(DictValues(filtered_puts))]

\* The ratio guarded on put_oi instead of call_oi; a zero denominator
\* stands for the division error.
calc_pc_ratio_put_guard(call_oi, put_oi) ==
    IF put_oi > 0 THEN [n |-> put_oi, d |-> call_oi] ELSE RatInt(0)

calc_pc_ratio(call_oi, put_oi) ==
    IF call_oi > 0 THEN Rat(put_oi, call_oi) ELSE RatInt(0)

-----------------------------------------------------------------------------
(* calculate_gamma_wall *)

\* The loop of calculate_gamma_wall without "if oi <= 0: continue"
RECURSIVE SumGammaAnyOI(_, _, _)
SumGammaAnyOI(insts, spot, strike_gamma) ==
    IF Len(insts) = 0 THEN strike_gamma
    ELSE LET instrument == insts[1]
             strike == instrument.strike
             moneyness == Rat(Abs(spot - strike), spot)
             gamma_weight == RatMax(Rat(1, 10),
                                    RatSub(RatInt(1), RatMul(moneyness, RatInt(5))))
             contribution == RatMul(gamma_weight, RatInt(instrument.open_interest))
             gamma_contribution ==
                 IF is_call(instrument) THEN contribution
                 ELSE RatMul(contribution, RatInt(-1))
         IN  SumGammaAnyOI(Tail(insts), spot,
                 DictSet(strike_gamma, strike,
                         RatAdd(DictGet(strike_gamma, strike, RatInt(0)),
                                gamma_contribution)))

RECURSIVE SumGamma(_, _, _)
SumGamma(insts, spot, strike_gamma) ==
    IF Len(insts) = 0 THEN strike_gamma
    ELSE LET instrument == insts[1]
             strike == instrument.strike
             oi == instrument.open_interest
             moneyness == Rat(Abs(spot - strike), spot)
             gamma_weight == RatMax(Rat(1, 10),
                                    RatSub(RatInt(1), RatMul(moneyness, RatInt(5))))
             contribution == RatMul(gamma_weight, RatInt(oi))
             gamma_contribution ==
                 IF is_call(instrument) THEN contribution
                 ELSE RatMul(contribution, RatInt(-1))
             next == IF oi <= 0 THEN strike_gamma
                     ELSE DictSet(strike_gamma, strike,
                                  RatAdd(DictGet(strike_gamma, strike, RatInt(0)),
                                         gamma_contribution))
         IN  SumGamma(Tail(insts), spot, next)

\* The wall taken at the largest net gamma instead of the largest |net gamma|
calculate_gamma_wall_signed(insts, spot) ==
    IF Len(insts) = 0 THEN <<>>
    ELSE LET strike_gamma == SumGamma(insts, spot, <<>>)
         IN  IF Len(strike_gamma) = 0 THEN <<>>
             ELSE LET wall == MaxFirst(strike_gamma, LAMBDA a, b : RatLt(a[2], b[2]))
                      gamma_type == IF wall[2].n < 0 THEN "Gamma Wall (Short Gamma)"
                                    ELSE "Gamma Wall (Long Gamma)"
                  IN  <<<<gamma_type, RatInt(wall[1])>>>>

calculate_gamma_wall(insts, spot) ==
    IF Len(insts) = 0 THEN <<>>
    ELSE LET strike_gamma == SumGamma(insts, spot, <<>>)
         IN  IF Len(strike_gamma) = 0 THEN <<>>
             ELSE LET wall == MaxFirst(strike_gamma,
                                  LAMBDA a, b : RatLt(RatAbs(a[2]), RatAbs(b[2])))
                      gamma_type == IF wall[2].n < 0 THEN "Gamma Wall (Short Gamma)"
                                    ELSE "Gamma Wall (Long Gamma)"
                  IN  <<<<gamma_type, RatInt(wall[1])>>>>

-----------------------------------------------------------------------------
(* calculate_option_levels *)

\* The instrument dicts a timeframe list refers to
Deref(insts, list) == [k \in 1..Len(list) |-> insts[list[k]]]

\* Everything calculate_option_levels does after the grouping loop; g holds
\* the four lists (of instrument dicts).  The result is the returned dict.
OptionAnalysis(g, spot) ==
    LET current_iv == calculate_atm_iv(g.current, spot)
        dte0_iv == calculate_atm_iv(g.dte0, spot)
        week1_iv == calculate_atm_iv(g.week1, spot)
        month1_iv == calculate_atm_iv(g.month1, spot)
        current_band == calculate_dynamic_band(current_iv, RatInt(7))
        dte0_band == calculate_dynamic_band(dte0_iv, Rat(1, 10))
        week1_band == calculate_dynamic_band(week1_iv, RatInt(7))
        month1_band == calculate_dynamic_band(month1_iv, RatInt(30))
        cur == process_timeframe(g.current, "", current_band, spot)
        dte0 == process_timeframe(g.dte0, "0DTE", dte0_band, spot)
        week1 == process_timeframe(g.week1, "1W", week1_band, spot)
        month1 == process_timeframe(g.month1, "1M", month1_band, spot)
        gamma_wall_data == calculate_gamma_wall(g.dte0, spot)
        levels == DictUpdate(DictUpdate(DictUpdate(DictUpdate(DictUpdate(<<>>,
                      cur.levels), dte0.levels), week1.levels), month1.levels),
                      gamma_wall_data)
        pc_ratios == << <<"Current", calc_pc_ratio(cur.call_oi, cur.put_oi)>>,
                        <<"0DTE", calc_pc_ratio(dte0.call_oi, dte0.put_oi)>>,
                        <<"1W", calc_pc_ratio(week1.call_oi, week1.put_oi)>>,
                        <<"1M", calc_pc_ratio(month1.call_oi, month1.put_oi)>> >>
        iv_data == << <<"current", current_iv>>, <<"dte0", dte0_iv>>,
                      <<"week1", week1_iv>>, <<"month1", month1_iv>> >>
    IN  << <<"levels", levels>>, <<"put_call_ratios", pc_ratios>>,
           <<"iv_data", iv_data>> >>

\* Entry: "if not instruments: return {}", else the four lists start empty.
StartOptionLevels ==
    /\ pc = "options"
    /\ IF Len(instruments) = 0
       THEN /\ option_analysis' = <<>>
            /\ pc' = "flow"
            /\ UNCHANGED groupVars
       ELSE /\ pc' = "group"
            /\ inst_idx' = 0
            /\ current_instruments' = <<>>
            /\ dte0_instruments' = <<>>
            /\ week1_instruments' = <<>>
            /\ month1_instruments' = <<>>
            /\ last_reads' = <<>>
            /\ UNCHANGED option_analysis
    /\ UNCHANGED <<now, spot_price, fetches, stats_24h, instruments, futures_trades,
                   options_trades, hvl_levels, flow_levels, all_levels, key_levels,
                   error, filterVars, tradeVars, confVars, evalVars, retryVars>>

\* One pass of the grouping loop; the clock may advance between its reads.
GroupStep ==
    /\ pc = "group"
    /\ inst_idx < Len(instruments)
    /\ \E t \in ClockReads(now) :
         LET i == inst_idx + 1
             g == GroupInstrument(
                      Groups(current_instruments, dte0_instruments,
                             week1_instruments, month1_instruments),
                      i, instruments[i].expiry_date, t)
         IN  /\ current_instruments' = g.current
             /\ dte0_instruments' = g.dte0
             /\ week1_instruments' = g.week1
             /\ month1_instruments' = g.month1
             /\ last_reads' = t
             /\ inst_idx' = i
             /\ now' = t[4]
    /\ UNCHANGED <<pc, genVars, filterVars, tradeVars, confVars, evalVars, retryVars>>

\* The rest of the function, from the ATM IVs to the return.
FinishOptionLevels ==
    /\ pc = "group"
    /\ inst_idx = Len(instruments)
    /\ option_analysis' = OptionAnalysis(
           Groups(Deref(instruments, current_instruments),
                  Deref(instruments, dte0_instruments),
                  Deref(instruments, week1_instruments),
                  Deref(instruments, month1_instruments)), spot_price)
    /\ pc' = "flow"
    /\ UNCHANGED <<now, spot_price, fetches, stats_24h, instruments, futures_trades,
                   options_trades, hvl_levels, flow_levels, all_levels, key_levels,
                   error, groupVars, filterVars, tradeVars,
                   confVars, evalVars, retryVars>>

-----------------------------------------------------------------------------
(* Values the variables of the other functions hold while one function is  *)
(* examined alone.                                                          *)

NoStats == [high_24h |-> 0, low_24h |-> 0]

IdleFetches == [t \in {"stats", "instruments", "futures", "options"} |-> "idle"]

GenIdle ==
    /\ fetches = IdleFetches
    /\ stats_24h = NoStats
    /\ futures_trades = <<>>
    /\ options_trades = <<>>
    /\ hvl_levels = <<>>
    /\ option_analysis = <<>>
    /\ flow_levels = <<>>
    /\ all_levels = <<>>
    /\ key_levels = <<>>
    /\ error = "none"

GroupIdle ==
    /\ inst_idx = 0
    /\ current_instruments = <<>>
    /\ dte0_instruments = <<>>
    /\ week1_instruments = <<>>
    /\ month1_instruments = <<>>
    /\ last_reads = <<>>

TradeIdle ==
    /\ kind = "option"
    /\ hours_back = 0
    /\ chunk_hours = 1
    /\ end_time = 0
    /\ chunk_idx = 0
    /\ requests = <<>>
    /\ unique_trades = <<>>
    /\ all_trades = <<>>
    /\ first_seen = <<>>

EvalIdle ==
    /\ pt_timeframe = ""
    /\ pt_result = <<>>
    /\ rule_result = <<>>
    /\ band_iv = RatInt(0)
    /\ band_log = {}
    /\ gw_result = <<>>

RetryIdle ==
    /\ max_retries = 3
    /\ attempt = 0
    /\ responses = <<>>
    /\ retry_result = [state |-> "running", value |-> <<>>]

ConfIdle ==
    /\ conf_name = ""
    /\ conf_log = {}

FilterIdle ==
    /\ pt_call_strikes = <<>>
    /\ pt_put_strikes = <<>>
    /\ pt_band = RatInt(0)
    /\ pt_filtered_calls = <<>>
    /\ pt_filtered_puts = <<>>

-----------------------------------------------------------------------------
(* Specification of calculate_option_levels alone: any clock, any short    *)
(* list of instruments whose expiry lies around the clock's day.           *)

FirstDay == 7
NowHours == {7, 23}    \* an hour before the 08:00 expiry, an hour before midnight
NowSamples == {d * HoursPerDay + h : d \in FirstDay..(FirstDay + 6), h \in NowHours}
ExpiryOffsets == {0, 1, 7, 21}

ClassifyInstruments(t0) ==
    {Instrument(e, 105, "C", 1, 50) :
        e \in {<<>>} \cup {<<(t0 \div HoursPerDay) + off>> : off \in ExpiryOffsets}}

InitClassify ==
    /\ now \in NowSamples
    /\ pc = "options"
    /\ spot_price = 100
    /\ instruments \in SeqsUpTo(ClassifyInstruments(now), MaxInstruments)
    /\ GenIdle /\ GroupIdle /\ FilterIdle /\ TradeIdle /\ ConfIdle /\ EvalIdle /\ RetryIdle

NextClassify == StartOptionLevels \/ GroupStep \/ FinishOptionLevels

SpecClassify == InitClassify /\ [][NextClassify]_vars

-----------------------------------------------------------------------------
(* Specification of the strike filters alone (lines 525-526 of             *)
(* process_timeframe): any strike -> OI dict made of a run of consecutive  *)
(* strikes around spot plus far strikes, in ascending or descending        *)
(* insertion order, any band of BandSamples.                               *)

StrikeLo == 86
StrikeHi == 114
FarStrikes == {0, 200}
SpotSamples == {97, 100}
BandSamples == {RatInt(0), RatInt(10), Rat(21, 2), RatInt(12), RatInt(100)}

StrikeSets ==
    {(lo..hi) \cup far : lo \in StrikeLo..StrikeHi, hi \in StrikeLo..StrikeHi,
                         far \in SUBSET FarStrikes}

SampleOI(strike) == 1 + (strike % 3)

\* The dict with keys S inserted in ascending (or descending) order
StrikesDict(S, ascending) ==
    LET n == Cardinality(S)
        kth(i) == CHOOSE k \in S : Cardinality({x \in S : x < k}) = i - 1
    IN  [i \in 1..n |->
            LET k == IF ascending THEN kth(i) ELSE kth(n + 1 - i)
            IN  <<k, SampleOI(k)>>]

FilterStrikes ==
    /\ pc = "filter"
    /\ pt_filtered_calls' = filter_call_strikes(pt_call_strikes, pt_band, spot_price)
    /\ pt_filtered_puts' = filter_put_strikes(pt_put_strikes, pt_band, spot_price)
    /\ pc' = "filtered"
    /\ UNCHANGED <<now, genVars, groupVars, pt_call_strikes, pt_put_strikes, pt_band,
                   tradeVars, confVars, evalVars, retryVars>>

InitFilter ==
    /\ now = FirstDay * HoursPerDay
    /\ pc = "filter"
    /\ spot_price \in SpotSamples
    /\ instruments = <<>>
    /\ GenIdle /\ GroupIdle
    /\ \E S \in StrikeSets, ascending \in BOOLEAN :
          /\ pt_call_strikes = StrikesDict(S, ascending)
          /\ pt_put_strikes = StrikesDict(S, ascending)
    /\ pt_band \in BandSamples
    /\ pt_filtered_calls = <<>>
    /\ pt_filtered_puts = <<>>
    /\ TradeIdle /\ ConfIdle /\ EvalIdle /\ RetryIdle

NextFilter == FilterStrikes

SpecFilter == InitFilter /\ [][NextFilter]_vars

-----------------------------------------------------------------------------
(* fetch_complete_options_trades and fetch_complete_futures_trades: the    *)
(* two functions differ in the "kind" request parameter only.  A trade is  *)
(* [trade_id, tag]: trade_id is trade.get("trade_id"), where "None" stands *)
(* for an absent key or a JSON null and "" for an empty string; tag        *)
(* <<page, position>> stands for the rest of the record.                   *)

TradeIds == {"None", "", "t1", "t2"}

\* Python truth value of a trade_id
Truthy(trade_id) == trade_id # "None" /\ trade_id # ""

\* math.ceil(a / b) for positive integers
CeilDiv(a, b) == (a + b - 1) \div b

Min(a, b) == IF a < b THEN a ELSE b

\* The deduplication loop with the dict entry overwritten by a later
\* duplicate (last seen wins).
RECURSIVE DedupChunkLastWins(_, _)
DedupChunkLastWins(unique, chunk_trades) ==
    IF Len(chunk_trades) = 0 THEN unique
    ELSE LET trade == chunk_trades[1]
             next == IF Truthy(trade.trade_id)
                     THEN DictSet(unique, trade.trade_id, trade)
                     ELSE unique
         IN  DedupChunkLastWins(next, Tail(chunk_trades))

\* "for trade in chunk_trades": first seen wins, a falsy trade_id is skipped
RECURSIVE DedupChunk(_, _)
DedupChunk(unique, chunk_trades) ==
    IF Len(chunk_trades) = 0 THEN unique
    ELSE LET trade == chunk_trades[1]
             trade_id == trade.trade_id
             next == IF Truthy(trade_id) /\ ~DictHas(unique, trade_id)
                     THEN DictSet(unique, trade_id, trade)
                     ELSE unique
         IN  DedupChunk(next, Tail(chunk_trades))

\* History: the first record sent with each trade_id, falsy ones included
RECURSIVE RecordFirstSeen(_, _)
RecordFirstSeen(seen, chunk_trades) ==
    IF Len(chunk_trades) = 0 THEN seen
    ELSE RecordFirstSeen(
             IF DictHas(seen, chunk_trades[1].trade_id) THEN seen
             ELSE DictSet(seen, chunk_trades[1].trade_id, chunk_trades[1]),
             Tail(chunk_trades))

\* The pages the API may answer chunk number page with
Pages(page) ==
    {[k \in 1..Len(ids) |-> [trade_id |-> ids[k], tag |-> <<page, k>>]] :
        ids \in SeqsUpTo(TradeIds, MaxChunkLen)}

\* The number of chunks rounded down instead of up
total_chunks_floor == hours_back \div chunk_hours

total_chunks == CeilDiv(hours_back, chunk_hours)

\* One pass of "for chunk_idx in range(total_chunks)": the window, the
\* request, the deduplication of the answer.
FetchChunk ==
    /\ pc = "chunks"
    /\ chunk_idx < total_chunks
    /\ LET chunk_start_hours == chunk_idx * chunk_hours
           chunk_end_hours == Min((chunk_idx + 1) * chunk_hours, hours_back)
           chunk_end == end_time - chunk_start_hours
           chunk_start == end_time - chunk_end_hours
       IN  requests' = Append(requests,
               [kind |-> kind, start_timestamp |-> chunk_start,
                end_timestamp |-> chunk_end])
    /\ \E chunk_trades \in Pages(chunk_idx + 1) :
          /\ unique_trades' = DedupChunk(unique_trades, chunk_trades)
          /\ first_seen' = RecordFirstSeen(first_seen, chunk_trades)
    /\ chunk_idx' = chunk_idx + 1
    /\ UNCHANGED <<now, pc, genVars, groupVars, filterVars, kind, hours_back,
                   chunk_hours, end_time, all_trades, confVars, evalVars, retryVars>>

\* fetch_with_retry raises on its last attempt: the exception leaves the function
FetchChunkRaises ==
    /\ pc = "chunks"
    /\ chunk_idx < total_chunks
    /\ pc' = "chunks_raised"
    /\ UNCHANGED <<now, genVars, groupVars, filterVars, tradeVars, confVars, evalVars, retryVars>>

\* After the loop: all_trades = list(unique_trades.values())
ReturnTrades ==
    /\ pc = "chunks"
    /\ chunk_idx = total_chunks
    /\ all_trades' = DictValues(unique_trades)
    /\ pc' = "chunks_done"
    /\ UNCHANGED <<now, genVars, groupVars, filterVars, kind, hours_back,
                   chunk_hours, end_time, chunk_idx, requests, unique_trades,
                   first_seen, confVars, evalVars, retryVars>>

InitTrades ==
    /\ now = FirstDay * HoursPerDay
    /\ pc = "chunks"
    /\ spot_price = 100
    /\ instruments = <<>>
    /\ GenIdle /\ GroupIdle /\ FilterIdle /\ ConfIdle /\ EvalIdle /\ RetryIdle
    /\ kind \in {"option", "future"}
    /\ hours_back \in 1..MaxHoursBack
    /\ chunk_hours \in 1..MaxChunkHours
    /\ end_time = now
    /\ chunk_idx = 0
    /\ requests = <<>>
    /\ unique_trades = <<>>
    /\ all_trades = <<>>
    /\ first_seen = <<>>

NextTrades == FetchChunk \/ FetchChunkRaises \/ ReturnTrades

SpecTrades == InitTrades /\ [][NextTrades]_vars

-----------------------------------------------------------------------------
(* generate_key_levels: from the merged dict all_levels to the sorted list *)
(* of KeyLevel objects (lines 792-826).  A price is a rational; NonePrice  *)
(* stands for None.                                                         *)

NonePrice == [n |-> 0, d |-> 0]

\* "level_price and level_price > 0"
PositivePrice(level_price) ==
    level_price # NonePrice /\ level_price.n # 0 /\ level_price.n > 0

\* calculate_distance_to_spot with the difference divided by the level
calculate_distance_to_level(level, spot) ==
    RatMul(RatDiv(RatSub(level, RatInt(spot)), level), RatInt(100))

calculate_distance_to_spot(level, spot) ==
    RatMul(RatDiv(RatSub(level, RatInt(spot)), RatInt(spot)), RatInt(100))

\* calculate_confidence without the 0.1 floor of the distance factor
calculate_confidence_no_floor(base_confidence, distance_pct) ==
    LET distance_factor == RatSub(RatInt(1), RatDiv(RatAbs(distance_pct), RatInt(100)))
    IN  RatMin(RatInt(1), RatMul(base_confidence, distance_factor))

\* calculate_confidence with the distance taken with its sign
calculate_confidence_signed(base_confidence, distance_pct) ==
    LET distance_factor == RatMax(Rat(1, 10),
                               RatSub(RatInt(1), RatDiv(distance_pct, RatInt(100))))
    IN  RatMin(RatInt(1), RatMul(base_confidence, distance_factor))

calculate_confidence(base_confidence, distance_pct) ==
    LET distance_factor == RatMax(Rat(1, 10),
                               RatSub(RatInt(1), RatDiv(RatAbs(distance_pct), RatInt(100))))
    IN  RatMin(RatInt(1), RatMul(base_confidence, distance_factor))

confidence_map ==
    << <<"1D Max", Rat(8, 10)>>, <<"1D Min", Rat(7, 10)>>, <<"HVL", Rat(6, 10)>>,
       <<"Call Resistance", Rat(5, 10)>>, <<"Put Support", Rat(4, 10)>>,
       <<"Call Resistance 0DTE", Rat(7, 10)>>, <<"Put Support 0DTE", Rat(8, 10)>>,
       <<"Call Resistance 1W", Rat(5, 10)>>, <<"Put Support 1W", Rat(4, 10)>>,
       <<"Call Resistance 1M", Rat(4, 10)>>, <<"Put Support 1M", Rat(1, 10)>>,
       <<"Gamma Wall (Short Gamma)", Rat(6, 10)>>,
       <<"Gamma Wall (Long Gamma)", Rat(6, 10)>>,
       <<"HVS", Rat(5, 10)>>, <<"Max Pain Flow", Rat(4, 10)>>,
       <<"Call Flow Resistance", Rat(4, 10)>>, <<"Put Flow Support", Rat(4, 10)>>,
       <<"VWAS", Rat(3, 10)>> >>

\* confidence_map.get(level_name, 0.3)
BaseConfidence(level_name) == DictGet(confidence_map, level_name, Rat(3, 10))

KeyLevel(name, value, distance_to_spot, confidence) ==
    [name |-> name, value |-> value, distance_to_spot |-> distance_to_spot,
     confidence |-> confidence]

\* "for level_name, level_price in all_levels.items()"
RECURSIVE BuildKeyLevels(_, _, _)
BuildKeyLevels(levels, spot, acc) ==
    IF Len(levels) = 0 THEN acc
    ELSE LET level_name == levels[1][1]
             level_price == levels[1][2]
             distance == calculate_distance_to_spot(level_price, spot)
             base_conf == BaseConfidence(level_name)
             confidence == calculate_confidence(base_conf, distance)
         IN  BuildKeyLevels(Tail(levels), spot,
                 IF PositivePrice(level_price)
                 THEN Append(acc, KeyLevel(level_name, level_price, distance, confidence))
                 ELSE acc)

\* The list sorted by the signed distance instead of its absolute value
SortedKeyLevelsSigned(levels, spot) ==
    StableSort(BuildKeyLevels(levels, spot, <<>>),
               LAMBDA a, b : RatLt(a.distance_to_spot, b.distance_to_spot))

\* A sort by absolute distance that leaves equal keys in the reverse of
\* their order in the list
SortedKeyLevelsTiesReversed(levels, spot) ==
    LET built == BuildKeyLevels(levels, spot, <<>>)
        reversed == [i \in 1..Len(built) |-> built[Len(built) + 1 - i]]
    IN  StableSort(reversed,
                   LAMBDA a, b : RatLt(RatAbs(a.distance_to_spot), RatAbs(b.distance_to_spot)))

\* key_levels after key_levels.sort(key=lambda x: abs(x.distance_to_spot))
SortedKeyLevels(levels, spot) ==
    StableSort(BuildKeyLevels(levels, spot, <<>>),
               LAMBDA a, b : RatLt(RatAbs(a.distance_to_spot), RatAbs(b.distance_to_spot)))

ComposeKeyLevels ==
    /\ pc = "compose"
    /\ key_levels' = SortedKeyLevels(all_levels, spot_price)
    /\ pc' = "done"
    /\ UNCHANGED <<now, spot_price, fetches, stats_24h, instruments, futures_trades,
                   options_trades, hvl_levels, option_analysis, flow_levels,
                   all_levels, error, groupVars, filterVars, tradeVars, confVars, evalVars, retryVars>>

-----------------------------------------------------------------------------
(* Specification of the composition alone: any merged dict of at most      *)
(* MaxLevels of the names below with prices of PriceSamples.               *)

NameSamples == {"1D Max", "HVL", "Put Support 1M", "Custom"}
PriceSamples == {NonePrice, RatInt(0), RatInt(-50), RatInt(50), RatInt(100), RatInt(150)}
ComposeSpots == {80, 100}

LevelDicts ==
    {d \in SeqsUpTo(NameSamples \X PriceSamples, MaxLevels) :
        \A i, j \in 1..Len(d) : i # j => d[i][1] # d[j][1]}

InitCompose ==
    /\ now = FirstDay * HoursPerDay
    /\ pc = "compose"
    /\ spot_price \in ComposeSpots
    /\ instruments = <<>>
    /\ fetches = IdleFetches
    /\ stats_24h = NoStats
    /\ futures_trades = <<>>
    /\ options_trades = <<>>
    /\ hvl_levels = <<>>
    /\ option_analysis = <<>>
    /\ flow_levels = <<>>
    /\ all_levels \in LevelDicts
    /\ key_levels = <<>>
    /\ error = "none"
    /\ GroupIdle /\ FilterIdle /\ TradeIdle /\ ConfIdle /\ EvalIdle /\ RetryIdle

NextCompose == ComposeKeyLevels

SpecCompose == InitCompose /\ [][NextCompose]_vars

-----------------------------------------------------------------------------
(* Specification of calculate_confidence alone: the base confidence of any *)
(* level name, applied to distances of DistanceSamples.                    *)

LevelNames == {confidence_map[i][1] : i \in 1..Len(confidence_map)} \cup {"Custom"}

DistanceSamples ==
    {RatInt(k) : k \in {-150, -100, -95, -90, -50, -1, 0, 1, 50, 89, 90, 91, 100, 150}}
        \cup {Rat(1, 3), Rat(181, 2)}

EvalConfidence ==
    /\ pc = "confidence"
    /\ Cardinality(conf_log) < MaxEvals
    /\ \E distance \in DistanceSamples :
          conf_log' = conf_log \cup
              {[distance_pct |-> distance,
                confidence |-> calculate_confidence(BaseConfidence(conf_name), distance)]}
    /\ UNCHANGED <<now, pc, genVars, groupVars, filterVars, tradeVars, conf_name,
                   evalVars, retryVars>>

InitConfidence ==
    /\ now = FirstDay * HoursPerDay
    /\ pc = "confidence"
    /\ spot_price = 100
    /\ instruments = <<>>
    /\ GenIdle /\ GroupIdle /\ FilterIdle /\ TradeIdle
    /\ conf_name \in LevelNames
    /\ conf_log = {}
    /\ EvalIdle /\ RetryIdle

NextConfidence == EvalConfidence

SpecConfidence == InitConfidence /\ [][NextConfidence]_vars

-----------------------------------------------------------------------------
(* calculate_volume_profile_levels.  A futures trade is                    *)
(* [price (a rational), amount].                                           *)

RoundThreshold == 1000
RoundStep == 10

\* Python's round(): to the nearest integer, a tie to the even one
RoundHalfEven(r) ==
    LET q == r.n \div r.d
        rem == r.n - q * r.d
    IN  IF 2 * rem < r.d THEN q
        ELSE IF 2 * rem > r.d THEN q + 1
        ELSE IF q % 2 = 0 THEN q ELSE q + 1

\* The bucket with halves rounded up instead of to the even neighbour
PriceLevelHalfUp(price) ==
    LET HalfUp(r) == (2 * r.n + r.d) \div (2 * r.d)
    IN  IF RatLt(RatInt(RoundThreshold), price)
        THEN RatInt(HalfUp(RatDiv(price, RatInt(RoundStep))) * RoundStep)
        ELSE Rat(HalfUp(RatMul(price, RatInt(RoundStep))), RoundStep)

\* "round(price / 10) * 10 if price > 1000 else round(price * 10) / 10"
PriceLevel(price) ==
    IF RatLt(RatInt(RoundThreshold), price)
    THEN RatInt(RoundHalfEven(RatDiv(price, RatInt(RoundStep))) * RoundStep)
    ELSE Rat(RoundHalfEven(RatMul(price, RatInt(RoundStep))), RoundStep)

RECURSIVE PriceLevels(_, _)
PriceLevels(trades, price_levels) ==
    IF Len(trades) = 0 THEN price_levels
    ELSE LET price == trades[1].price
             amount == trades[1].amount
             level == PriceLevel(price)
             next == IF price.n <= 0 \/ amount <= 0 THEN price_levels
                     ELSE DictSet(price_levels, level,
                                  DictGet(price_levels, level, 0) + amount)
         IN  PriceLevels(Tail(trades), next)

calculate_volume_profile_levels(trades, spot) ==
    IF Len(trades) = 0 THEN <<>>
    ELSE LET price_levels == PriceLevels(trades, <<>>)
         IN  IF Len(price_levels) = 0 THEN <<>>
             ELSE LET hvl == MaxFirst(price_levels, LAMBDA a, b : a[2] < b[2])
                  IN  <<[level |-> "HVL", price |-> hvl[1], volume |-> hvl[2]]>>

-----------------------------------------------------------------------------
(* analyze_complete_options_flow.  An options trade is                     *)
(* [instrument_name, amount, price, direction, timestamp]; instrument_name *)
(* is held as the list of its "-"-separated parts (<<>> for a missing or   *)
(* empty name), timestamp in hours.                                         *)

\* float(parts[2]): the strings that parse, with their values; any other
\* string raises ValueError.
StrikeValues == << <<"0", 0>>, <<"80", 80>>, <<"90", 90>>, <<"100", 100>>,
                  <<"110", 110>>, <<"120", 120>> >>

\* math.exp(-hours_ago / 12) in hundredths, rounded, for hours_ago = 0..24
ExpTable == <<100, 92, 85, 78, 72, 66, 61, 56, 51, 47, 43, 40, 37, 34, 31, 29,
              26, 24, 22, 21, 19, 17, 16, 15, 14>>

time_weight(hours_ago) == Rat(ExpTable[hours_ago + 1], 100)

\* calculate_delta_simple raises ZeroDivisionError here
DeltaRaises(strike, time_to_expiry) == RatLt(RatInt(0), time_to_expiry) /\ strike = 0

\* Only applied where DeltaRaises is false
calculate_delta_simple(spot, strike, time_to_expiry, call) ==
    IF RatLe(time_to_expiry, RatInt(0))
    THEN IF (call /\ spot > strike) \/ (~call /\ spot < strike)
         THEN RatInt(1) ELSE RatInt(0)
    ELSE LET moneyness == Rat(spot, strike)
             skew == RatMul(Rat(4, 10), RatSub(moneyness, RatInt(1)))
             raw == IF call THEN RatAdd(Rat(1, 2), skew) ELSE RatSub(Rat(1, 2), skew)
         IN  RatMax(Rat(5, 100), RatMin(Rat(95, 100), raw))

\* The records the loop leaves with "continue" before it adds anything;
\* a zero strike is the one the except clause ends.
TradeSkipped(trade) ==
    \/ Len(trade.instrument_name) < 4
    \/ ~DictHas(StrikeValues, trade.instrument_name[3])
    \/ DictGet(StrikeValues, trade.instrument_name[3], 0) = 0
    \/ trade.amount <= 0
    \/ trade.price <= 0

NewStrikeFlow ==
    [total_volume |-> 0, net_flow |-> RatInt(0), call_volume |-> 0,
     put_volume |-> 0, weighted_flow |-> RatInt(0)]

\* One pass of "for trade in trades"; acc is [strike_flow, total_volume],
\* t the clock.
FlowStep(acc, trade, spot, t) ==
    LET parts == trade.instrument_name
    IN  IF Len(parts) = 0 THEN acc
        ELSE IF Len(parts) < 4 THEN acc
        ELSE IF ~DictHas(StrikeValues, parts[3]) THEN acc
        ELSE IF trade.amount <= 0 \/ trade.price <= 0 THEN acc
        ELSE
          LET strike == DictGet(StrikeValues, parts[3], 0)
              option_type == parts[4]
              notional == trade.amount * trade.price * spot
              counted == [acc EXCEPT !.total_volume = @ + notional]
              hours_ago == t - trade.timestamp
              call == option_type = "C"
          IN  IF DeltaRaises(strike, Rat(1, 365)) THEN counted
              ELSE
                LET delta == calculate_delta_simple(spot, strike, Rat(1, 365), call)
                    delta_exposure == RatMul(RatInt(notional), delta)
                    flow_direction == IF trade.direction = "buy" THEN 1 ELSE -1
                    signed == RatMul(delta_exposure, RatInt(flow_direction))
                    data == DictGet(acc.strike_flow, strike, NewStrikeFlow)
                    updated ==
                        [total_volume |-> data.total_volume + notional,
                         net_flow |-> RatAdd(data.net_flow, signed),
                         weighted_flow |-> RatAdd(data.weighted_flow,
                                              RatMul(signed, time_weight(hours_ago))),
                         call_volume |-> data.call_volume + (IF call THEN notional ELSE 0),
                         put_volume |-> data.put_volume + (IF call THEN 0 ELSE notional)]
                IN  [counted EXCEPT !.strike_flow = DictSet(@, strike, updated)]

RECURSIVE FlowLoop(_, _, _, _)
FlowLoop(acc, trades, spot, t) ==
    IF Len(trades) = 0 THEN acc
    ELSE FlowLoop(FlowStep(acc, trades[1], spot, t), Tail(trades), spot, t)

\* The flow levels with Max Pain Flow taken by (total volume, balance)
\* instead of (balance, total volume)
FlowLevelsByVolume(strike_flow, total_volume, spot) ==
    LET hvs == MaxFirst(strike_flow, LAMBDA a, b : a[2].total_volume < b[2].total_volume)
        l1 == <<<<"HVS", RatInt(hvs[1])>>>>
        Lo(d) == IF d.call_volume < d.put_volume THEN d.call_volume ELSE d.put_volume
        Hi(d) == IF d.call_volume < d.put_volume THEN d.put_volume ELSE d.call_volume
        balanced_strikes ==
            SelectSeq([i \in 1..Len(strike_flow) |->
                          LET d == strike_flow[i][2]
                          IN  <<strike_flow[i][1],
                                IF Hi(d) > 0 THEN Rat(Lo(d), Hi(d)) ELSE RatInt(0),
                                d.total_volume, d.call_volume > 0 /\ d.put_volume > 0>>],
                      LAMBDA x : x[4])
        sorted_balanced ==
            StableSort(balanced_strikes,
                       LAMBDA a, b : \/ b[3] < a[3]
                                     \/ (a[3] = b[3] /\ RatLt(b[2], a[2])))
        l2 == IF Len(balanced_strikes) > 0
              THEN DictSet(l1, "Max Pain Flow", RatInt(sorted_balanced[1][1]))
              ELSE l1
        call_resistance ==
            SelectSeq(strike_flow,
                      LAMBDA e : e[1] > spot /\ e[2].call_volume > e[2].put_volume)
        sorted_calls ==
            StableSort(call_resistance,
                       LAMBDA a, b : RatLt(b[2].weighted_flow, a[2].weighted_flow))
        l3 == IF Len(call_resistance) > 0
              THEN DictSet(l2, "Call Flow Resistance", RatInt(sorted_calls[1][1]))
              ELSE l2
        put_support ==
            SelectSeq(strike_flow,
                      LAMBDA e : e[1] < spot /\ e[2].put_volume > e[2].call_volume)
        sorted_puts ==
            StableSort(put_support,
                       LAMBDA a, b : RatLt(RatAbs(b[2].weighted_flow),
                                           RatAbs(a[2].weighted_flow)))
        l4 == IF Len(put_support) > 0
              THEN DictSet(l3, "Put Flow Support", RatInt(sorted_puts[1][1]))
              ELSE l3
        weighted == SumSeq([i \in 1..Len(strike_flow) |->
                              strike_flow[i][1] * strike_flow[i][2].total_volume])
    IN  IF total_volume > 0
        THEN DictSet(l4, "VWAS", Rat(weighted, total_volume))
        ELSE l4

\* The flow levels with Call Flow Resistance taken by |weighted_flow|
FlowLevelsAbsCallFlow(strike_flow, total_volume, spot) ==
    LET hvs == MaxFirst(strike_flow, LAMBDA a, b : a[2].total_volume < b[2].total_volume)
        l1 == <<<<"HVS", RatInt(hvs[1])>>>>
        Lo(d) == IF d.call_volume < d.put_volume THEN d.call_volume ELSE d.put_volume
        Hi(d) == IF d.call_volume < d.put_volume THEN d.put_volume ELSE d.call_volume
        balanced_strikes ==
            SelectSeq([i \in 1..Len(strike_flow) |->
                          LET d == strike_flow[i][2]
                          IN  <<strike_flow[i][1],
                                IF Hi(d) > 0 THEN Rat(Lo(d), Hi(d)) ELSE RatInt(0),
                                d.total_volume, d.call_volume > 0 /\ d.put_volume > 0>>],
                      LAMBDA x : x[4])
        sorted_balanced ==
            StableSort(balanced_strikes,
                       LAMBDA a, b : \/ RatLt(b[2], a[2])
                                     \/ (a[2] = b[2] /\ b[3] < a[3]))
        l2 == IF Len(balanced_strikes) > 0
              THEN DictSet(l1, "Max Pain Flow", RatInt(sorted_balanced[1][1]))
              ELSE l1
        call_resistance ==
            SelectSeq(strike_flow,
                      LAMBDA e : e[1] > spot /\ e[2].call_volume > e[2].put_volume)
        sorted_calls ==
            StableSort(call_resistance,
                       LAMBDA a, b : RatLt(RatAbs(b[2].weighted_flow),
                                           RatAbs(a[2].weighted_flow)))
        l3 == IF Len(call_resistance) > 0
              THEN DictSet(l2, "Call Flow Resistance", RatInt(sorted_calls[1][1]))
              ELSE l2
        put_support ==
            SelectSeq(strike_flow,
                      LAMBDA e : e[1] < spot /\ e[2].put_volume > e[2].call_volume)
        sorted_puts ==
            StableSort(put_support,
                       LAMBDA a, b : RatLt(RatAbs(b[2].weighted_flow),
                                           RatAbs(a[2].weighted_flow)))
        l4 == IF Len(put_support) > 0
              THEN DictSet(l3, "Put Flow Support", RatInt(sorted_puts[1][1]))
              ELSE l3
        weighted == SumSeq([i \in 1..Len(strike_flow) |->
                              strike_flow[i][1] * strike_flow[i][2].total_volume])
    IN  IF total_volume > 0
        THEN DictSet(l4, "VWAS", Rat(weighted, total_volume))
        ELSE l4

\* The flow levels computed from the aggregation (lines 701-744)
FlowLevels(strike_flow, total_volume, spot) ==
    LET hvs == MaxFirst(strike_flow, LAMBDA a, b : a[2].total_volume < b[2].total_volume)
        l1 == <<<<"HVS", RatInt(hvs[1])>>>>
        Lo(d) == IF d.call_volume < d.put_volume THEN d.call_volume ELSE d.put_volume
        Hi(d) == IF d.call_volume < d.put_volume THEN d.put_volume ELSE d.call_volume
        balanced_strikes ==
            SelectSeq([i \in 1..Len(strike_flow) |->
                          LET d == strike_flow[i][2]
                          IN  <<strike_flow[i][1],
                                IF Hi(d) > 0 THEN Rat(Lo(d), Hi(d)) ELSE RatInt(0),
                                d.total_volume, d.call_volume > 0 /\ d.put_volume > 0>>],
                      LAMBDA x : x[4])
        sorted_balanced ==
            StableSort(balanced_strikes,
                       LAMBDA a, b : \/ RatLt(b[2], a[2])
                                     \/ (a[2] = b[2] /\ b[3] < a[3]))
        l2 == IF Len(balanced_strikes) > 0
              THEN DictSet(l1, "Max Pain Flow", RatInt(sorted_balanced[1][1]))
              ELSE l1
        call_resistance ==
            SelectSeq(strike_flow,
                      LAMBDA e : e[1] > spot /\ e[2].call_volume > e[2].put_volume)
        sorted_calls ==
            StableSort(call_resistance,
                       LAMBDA a, b : RatLt(b[2].weighted_flow, a[2].weighted_flow))
        l3 == IF Len(call_resistance) > 0
              THEN DictSet(l2, "Call Flow Resistance", RatInt(sorted_calls[1][1]))
              ELSE l2
        put_support ==
            SelectSeq(strike_flow,
                      LAMBDA e : e[1] < spot /\ e[2].put_volume > e[2].call_volume)
        sorted_puts ==
            StableSort(put_support,
                       LAMBDA a, b : RatLt(RatAbs(b[2].weighted_flow),
                                           RatAbs(a[2].weighted_flow)))
        l4 == IF Len(put_support) > 0
              THEN DictSet(l3, "Put Flow Support", RatInt(sorted_puts[1][1]))
              ELSE l3
        weighted == SumSeq([i \in 1..Len(strike_flow) |->
                              strike_flow[i][1] * strike_flow[i][2].total_volume])
    IN  IF total_volume > 0
        THEN DictSet(l4, "VWAS", Rat(weighted, total_volume))
        ELSE l4

analyze_complete_options_flow(trades, spot, t) ==
    IF Len(trades) = 0 THEN <<>>
    ELSE LET acc == FlowLoop([strike_flow |-> <<>>, total_volume |-> 0], trades, spot, t)
         IN  IF Len(acc.strike_flow) = 0 THEN <<>>
             ELSE FlowLevels(acc.strike_flow, acc.total_volume, spot)

AnalyzeFlow ==
    /\ pc = "flow"
    /\ flow_levels' = analyze_complete_options_flow(options_trades, spot_price, now)
    /\ pc' = "merge"
    /\ UNCHANGED <<now, spot_price, fetches, stats_24h, instruments, futures_trades,
                   options_trades, hvl_levels, option_analysis, all_levels,
                   key_levels, error, groupVars, filterVars, tradeVars, confVars, evalVars, retryVars>>

-----------------------------------------------------------------------------
(* Specification of analyze_complete_options_flow alone: any tape of at    *)
(* most MaxTrades of the records below.                                    *)

FlowSpots == {100}

OptionTrade(instrument_name, amount, price, direction, timestamp) ==
    [instrument_name |-> instrument_name, amount |-> amount, price |-> price,
     direction |-> direction, timestamp |-> timestamp]

TradeSamples(t) ==
    {OptionTrade(<<"BTC", "1JAN25", "110", "C">>, 1, 1, "buy", t),
     OptionTrade(<<"BTC", "1JAN25", "110", "P">>, 1, 1, "sell", t - 12),
     OptionTrade(<<"BTC", "1JAN25", "90", "P">>, 2, 1, "buy", t - 12),
     OptionTrade(<<"BTC", "1JAN25", "0", "C">>, 1, 1, "buy", t),
     OptionTrade(<<"BTC", "1JAN25", "abc", "C">>, 1, 1, "buy", t),
     OptionTrade(<<"BTC", "1JAN25", "90">>, 1, 1, "buy", t),
     OptionTrade(<<>>, 1, 1, "buy", t),
     OptionTrade(<<"BTC", "1JAN25", "90", "C">>, 0, 1, "sell", t),
     OptionTrade(<<"BTC", "1JAN25", "90", "C">>, 1, -1, "sell", t)}

InitFlow ==
    /\ now = FirstDay * HoursPerDay
    /\ pc = "flow"
    /\ spot_price \in FlowSpots
    /\ instruments = <<>>
    /\ fetches = IdleFetches
    /\ stats_24h = NoStats
    /\ futures_trades = <<>>
    /\ options_trades \in SeqsUpTo(TradeSamples(now), MaxTrades)
    /\ hvl_levels = <<>>
    /\ option_analysis = <<>>
    /\ flow_levels = <<>>
    /\ all_levels = <<>>
    /\ key_levels = <<>>
    /\ error = "none"
    /\ GroupIdle /\ FilterIdle /\ TradeIdle /\ ConfIdle /\ EvalIdle /\ RetryIdle

NextFlow == AnalyzeFlow

SpecFlow == InitFlow /\ [][NextFlow]_vars

-----------------------------------------------------------------------------
(* generate_key_levels: the spot price, the four concurrent fetches and    *)
(* the analytics up to the merged dict.  A fetch is one coroutine handed   *)
(* to asyncio.gather: "idle" before gather is called, then "running",      *)
(* then "done" or "failed".                                                 *)

FetchNames == {"stats", "instruments", "futures", "options"}

\* "if spot_price < 0" in place of "if spot_price <= 0"
SpotInvalidNegativeOnly(spot) == spot < 0

\* "if spot_price <= 0"
SpotInvalid(spot) == spot <= 0

\* The result dicts of get_index_price examined: no index_price key, or one
\* with a negative, a zero or a positive price
IndexPriceResults ==
    {<<>>} \cup {<<<<"index_price", v>>>> : v \in {-1, 0, 100}}

\* fetch_index_price returns result.get("index_price", 0)
FetchIndexPrice ==
    /\ pc = "start"
    /\ \E result \in IndexPriceResults :
          spot_price' = DictGet(result, "index_price", 0)
    /\ pc' = "spot_check"
    /\ UNCHANGED <<now, fetches, stats_24h, instruments, futures_trades,
                   options_trades, hvl_levels, option_analysis, flow_levels,
                   all_levels, key_levels, error, groupVars, filterVars,
                   tradeVars, confVars, evalVars, retryVars>>

\* fetch_with_retry raises on its last attempt
FetchIndexPriceRaises ==
    /\ pc = "start"
    /\ pc' = "failed"
    /\ error' = "fetch_index_price"
    /\ UNCHANGED <<now, spot_price, fetches, stats_24h, instruments, futures_trades,
                   options_trades, hvl_levels, option_analysis, flow_levels,
                   all_levels, key_levels, groupVars, filterVars, tradeVars,
                   confVars, evalVars, retryVars>>

\* The spot check, then the call of asyncio.gather, which schedules the
\* four coroutines.
CheckSpotAndGather ==
    /\ pc = "spot_check"
    /\ IF SpotInvalid(spot_price)
       THEN /\ pc' = "failed"
            /\ error' = "ValueError"
            /\ UNCHANGED fetches
       ELSE /\ pc' = "gather"
            /\ fetches' = [f \in FetchNames |-> "running"]
            /\ UNCHANGED error
    /\ UNCHANGED <<now, spot_price, stats_24h, instruments, futures_trades,
                   options_trades, hvl_levels, option_analysis, flow_levels,
                   all_levels, key_levels, groupVars, filterVars, tradeVars,
                   confVars, evalVars, retryVars>>

StatsResults == {[high_24h |-> h, low_24h |-> l] : h \in {0, 110}, l \in {0, 90}}

InstrumentsResults ==
    {<<>>,
     <<Instrument(<<FirstDay>>, 105, "C", 0, 50), Instrument(<<FirstDay>>, 95, "P", 0, 50)>>,
     <<Instrument(<<FirstDay>>, 105, "C", 2, 50), Instrument(<<FirstDay + 4>>, 95, "P", 3, 50)>>}

FuturesResults == {<<>>, <<[price |-> Rat(2015, 20), amount |-> 1]>>}

OptionsResults ==
    {<<>>,
     <<OptionTrade(<<"BTC", "1JAN25", "90">>, 1, 1, "buy", FirstDay * HoursPerDay),
       OptionTrade(<<"BTC", "1JAN25", "0", "C">>, 1, 1, "buy", FirstDay * HoursPerDay),
       OptionTrade(<<"BTC", "1JAN25", "90", "C">>, 0, 1, "sell", FirstDay * HoursPerDay)>>,
     <<OptionTrade(<<"BTC", "1JAN25", "110", "C">>, 1, 1, "buy", FirstDay * HoursPerDay)>>}

\* A coroutine of the gather ends; one that is still running when another
\* has failed runs on.
FetchStats ==
    /\ pc \in {"gather", "failed"}
    /\ fetches["stats"] = "running"
    /\ stats_24h' \in StatsResults
    /\ fetches' = [fetches EXCEPT !["stats"] = "done"]
    /\ UNCHANGED <<now, pc, spot_price, instruments, futures_trades, options_trades,
                   hvl_levels, option_analysis, flow_levels, all_levels, key_levels,
                   error, groupVars, filterVars, tradeVars, confVars, evalVars, retryVars>>

FetchInstruments ==
    /\ pc \in {"gather", "failed"}
    /\ fetches["instruments"] = "running"
    /\ instruments' \in InstrumentsResults
    /\ fetches' = [fetches EXCEPT !["instruments"] = "done"]
    /\ UNCHANGED <<now, pc, spot_price, stats_24h, futures_trades, options_trades,
                   hvl_levels, option_analysis, flow_levels, all_levels, key_levels,
                   error, groupVars, filterVars, tradeVars, confVars, evalVars, retryVars>>

FetchFutures ==
    /\ pc \in {"gather", "failed"}
    /\ fetches["futures"] = "running"
    /\ futures_trades' \in FuturesResults
    /\ fetches' = [fetches EXCEPT !["futures"] = "done"]
    /\ UNCHANGED <<now, pc, spot_price, stats_24h, instruments, options_trades,
                   hvl_levels, option_analysis, flow_levels, all_levels, key_levels,
                   error, groupVars, filterVars, tradeVars, confVars, evalVars, retryVars>>

FetchOptions ==
    /\ pc \in {"gather", "failed"}
    /\ fetches["options"] = "running"
    /\ options_trades' \in OptionsResults
    /\ fetches' = [fetches EXCEPT !["options"] = "done"]
    /\ UNCHANGED <<now, pc, spot_price, stats_24h, instruments, futures_trades,
                   hvl_levels, option_analysis, flow_levels, all_levels, key_levels,
                   error, groupVars, filterVars, tradeVars, confVars, evalVars, retryVars>>

\* A coroutine raises; gather hands the first exception to its caller.
FetchRaises ==
    /\ pc \in {"gather", "failed"}
    /\ \E f \in FetchNames :
          /\ fetches[f] = "running"
          /\ fetches' = [fetches EXCEPT ![f] = "failed"]
          /\ IF pc = "gather"
             THEN pc' = "failed" /\ error' = f
             ELSE UNCHANGED <<pc, error>>
    /\ UNCHANGED <<now, spot_price, stats_24h, instruments, futures_trades,
                   options_trades, hvl_levels, option_analysis, flow_levels,
                   all_levels, key_levels, groupVars, filterVars, tradeVars,
                   confVars, evalVars, retryVars>>

\* A gather that returned as soon as one coroutine had a result
GatherFirstCompleted(f) == \E name \in FetchNames : f[name] = "done"

\* await asyncio.gather(...) returns the four results once all four
\* coroutines have ended
GatherCompleted(f) == \A name \in FetchNames : f[name] = "done"

\* gather returns once all four have ended; then calculate_1d_levels and
\* calculate_volume_profile_levels.
CalculateLevels ==
    /\ pc = "gather"
    /\ GatherCompleted(fetches)
    /\ hvl_levels' = calculate_volume_profile_levels(futures_trades, spot_price)
    /\ pc' = "options"
    /\ UNCHANGED <<now, spot_price, fetches, stats_24h, instruments, futures_trades,
                   options_trades, option_analysis, flow_levels, all_levels,
                   key_levels, error, groupVars, filterVars, tradeVars, confVars, evalVars, retryVars>>

calculate_1d_levels(stats) == <<stats.high_24h, stats.low_24h>>

\* "Combine all levels" (lines 772-788)
MergedLevels(stats, hvls, analysis, flows) ==
    LET max_24h == calculate_1d_levels(stats)[1]
        min_24h == calculate_1d_levels(stats)[2]
        l1 == IF max_24h > 0 THEN <<<<"1D Max", RatInt(max_24h)>>>> ELSE <<>>
        l2 == IF min_24h > 0 THEN DictSet(l1, "1D Min", RatInt(min_24h)) ELSE l1
        l3 == DictUpdate(l2, [i \in 1..Len(hvls) |-> <<hvls[i].level, hvls[i].price>>])
        l4 == DictUpdate(l3, DictGet(analysis, "levels", <<>>))
    IN  DictUpdate(l4, flows)

MergeLevels ==
    /\ pc = "merge"
    /\ all_levels' = MergedLevels(stats_24h, hvl_levels, option_analysis, flow_levels)
    /\ pc' = "compose"
    /\ UNCHANGED <<now, spot_price, fetches, stats_24h, instruments, futures_trades,
                   options_trades, hvl_levels, option_analysis, flow_levels,
                   key_levels, error, groupVars, filterVars, tradeVars, confVars, evalVars, retryVars>>

InitGen ==
    /\ now = FirstDay * HoursPerDay + ExpiryHour - 1
    /\ pc = "start"
    /\ spot_price = 0
    /\ instruments = <<>>
    /\ GenIdle /\ GroupIdle /\ FilterIdle /\ TradeIdle /\ ConfIdle /\ EvalIdle /\ RetryIdle

NextGen ==
    \/ FetchIndexPrice \/ FetchIndexPriceRaises \/ CheckSpotAndGather
    \/ FetchStats \/ FetchInstruments \/ FetchFutures \/ FetchOptions \/ FetchRaises
    \/ CalculateLevels
    \/ StartOptionLevels \/ GroupStep \/ FinishOptionLevels
    \/ AnalyzeFlow \/ MergeLevels \/ ComposeKeyLevels

SpecGen == InitGen /\ [][NextGen]_vars

-----------------------------------------------------------------------------
(* Specification of calculate_option_levels on instruments of both sides:  *)
(* the clock starts on a Thursday at 23:00, the expiries lie 1, 3, 7 and   *)
(* 25 days ahead, so that each of the four timeframes can be filled.       *)

LevelsSpot == {100}
LevelsNow == (FirstDay + 3) * HoursPerDay + 23

LevelsInstruments ==
    LET day == FirstDay + 3
    IN  {Instrument(<<day + 1>>, 105, "C", 2, 50), Instrument(<<day + 1>>, 95, "P", 3, 50),
         Instrument(<<day + 1>>, 95, "X", 1, 50), Instrument(<<day + 1>>, 120, "C", 4, 50),
         Instrument(<<day + 3>>, 105, "C", 0, 50), Instrument(<<day + 3>>, 95, "P", 2, 50),
         Instrument(<<day + 7>>, 105, "C", 2, 50), Instrument(<<day + 7>>, 105, "P", 5, 50),
         Instrument(<<day + 25>>, 110, "C", 1, 50), Instrument(<<day + 25>>, 90, "P", 4, 50)}

InitLevels ==
    /\ now = LevelsNow
    /\ pc = "options"
    /\ spot_price \in LevelsSpot
    /\ instruments \in SeqsUpTo(LevelsInstruments, MaxInstruments)
    /\ GenIdle /\ GroupIdle /\ FilterIdle /\ TradeIdle /\ ConfIdle /\ EvalIdle /\ RetryIdle

NextLevels == StartOptionLevels \/ GroupStep \/ FinishOptionLevels

SpecLevels == InitLevels /\ [][NextLevels]_vars

-----------------------------------------------------------------------------
(* Claims *)

Occurrences(s, x) == Cardinality({k \in DOMAIN s : s[k] = x})

\* How often the instrument at position i occurs in the four timeframe lists
Placements(i) ==
      Occurrences(dte0_instruments, i) + Occurrences(current_instruments, i)
    + Occurrences(week1_instruments, i) + Occurrences(month1_instruments, i)

\* C1: every instrument the grouping loop has passed that has a parsed
\* expiry date is in exactly one of the four timeframe lists, exactly once;
\* an instrument without expiry date, or not yet passed, is in none.
C1_ExactlyOneList ==
    \A i \in 1..Len(instruments) :
        Placements(i) =
            IF i <= inst_idx /\ instruments[i].expiry_date # <<>> THEN 1 ELSE 0

\* The loop has finished a list in which an instrument met two rules at
\* once (0DTE and the next-Friday anchor) and was placed.
C1_Witness ==
    /\ pc = "group"
    /\ inst_idx = Len(instruments)
    /\ \E i \in 1..Len(instruments) :
          /\ is_0dte(instruments[i].expiry_date, now)
          /\ is_current_weekly_monthly(instruments[i].expiry_date, now)
          /\ Occurrences(dte0_instruments, i) = 1

\* C3: filter_call_strikes returns only strikes strictly above spot,
\* filter_put_strikes only strikes strictly below spot, and each returns at
\* most 10 strikes.
C3_FilterSides ==
    pc = "filtered" =>
        /\ \A i \in 1..Len(pt_filtered_calls) : pt_filtered_calls[i][1] > spot_price
        /\ \A i \in 1..Len(pt_filtered_puts) : pt_filtered_puts[i][1] < spot_price
        /\ Len(pt_filtered_calls) <= 10
        /\ Len(pt_filtered_puts) <= 10

\* Both filters have cut a dict that holds a strike equal to spot and more
\* than ten strikes inside the band on either side.
C3_Witness ==
    /\ pc = "filtered"
    /\ DictHas(pt_call_strikes, spot_price)
    /\ Len(pt_filtered_calls) = 10
    /\ Len(pt_filtered_puts) = 10
    /\ Cardinality({i \in 1..Len(pt_call_strikes) :
            /\ pt_call_strikes[i][1] > spot_price
            /\ RatLe(RatInt(pt_call_strikes[i][1]), BandUpper(spot_price, pt_band))}) > 10
    /\ Cardinality({i \in 1..Len(pt_put_strikes) :
            /\ pt_put_strikes[i][1] < spot_price
            /\ RatLe(BandLower(spot_price, pt_band), RatInt(pt_put_strikes[i][1]))}) > 10

\* The trade_ids the API sent so far
SeenIds == {first_seen[i][1] : i \in 1..Len(first_seen)}

\* all_trades holds exactly one trade for each id of ids and no other trade,
\* and that trade is the first record the API sent with the id.
OneFirstTradePerId(ids) ==
    /\ \A id \in ids :
          /\ Cardinality({i \in 1..Len(all_trades) : all_trades[i].trade_id = id}) = 1
          /\ \A i \in 1..Len(all_trades) :
                all_trades[i].trade_id = id =>
                    all_trades[i] = DictGet(first_seen, id, <<>>)
    /\ \A i \in 1..Len(all_trades) : all_trades[i].trade_id \in ids

\* C2 as stated: the result holds exactly one trade per distinct trade_id
\* that is not missing or null, namely the first record sent with it, and
\* no trade whose trade_id is missing or null.
C2_OnePerNonMissingId ==
    pc = "chunks_done" => OneFirstTradePerId(SeenIds \ {"None"})

\* C2 amended: the result holds exactly one trade per distinct truthy
\* trade_id (not missing, not null, not empty), namely the first record sent
\* with it; trades with a missing, null or empty trade_id appear nowhere.
C2_OnePerTruthyId ==
    pc = "chunks_done" => OneFirstTradePerId({id \in SeenIds : Truthy(id)})

\* Several pages have been merged in which an id came twice, in two pages,
\* and ids were missing.
C2_Witness ==
    /\ pc = "chunks_done"
    /\ chunk_idx >= 2
    /\ Len(all_trades) = 2
    /\ "None" \in SeenIds
    /\ \E i \in 1..Len(all_trades) : all_trades[i].tag[1] = 1
    /\ \E i \in 1..Len(all_trades) : all_trades[i].tag[1] = 2

\* The entries of the merged dict whose price is positive
PositiveEntries == {i \in 1..Len(all_levels) : PositivePrice(all_levels[i][2])}

\* C4: every KeyLevel has value > 0 and distance_to_spot equal to
\* (value - spot) / spot * 100, and comes from an entry of the merged dict
\* with that positive price; an entry whose price is zero, negative or None
\* produces no KeyLevel.
C4_PositiveValueAndDistance ==
    pc = "done" =>
        /\ \A k \in 1..Len(key_levels) :
              LET kl == key_levels[k]
              IN  /\ kl.value.n > 0 /\ kl.value.d > 0
                  /\ kl.distance_to_spot.n * (spot_price * kl.value.d)
                        = (kl.value.n - spot_price * kl.value.d) * 100
                              * kl.distance_to_spot.d
                  /\ \E i \in PositiveEntries :
                        all_levels[i] = <<kl.name, kl.value>>
        /\ \A i \in 1..Len(all_levels) :
              i \notin PositiveEntries =>
                  \A k \in 1..Len(key_levels) : key_levels[k].name # all_levels[i][1]

\* A merged dict with a None, a zero and a positive price below spot has
\* been composed.
C4_Witness ==
    /\ pc = "done"
    /\ \E i \in 1..Len(all_levels) : all_levels[i][2] = NonePrice
    /\ \E i \in 1..Len(all_levels) : all_levels[i][2] = RatInt(0)
    /\ \E k \in 1..Len(key_levels) : key_levels[k].distance_to_spot.n < 0

\* C5: the key-level list holds every merged level with positive price, once,
\* and the absolute distance never decreases from one level to the next.
C5_CompleteAndSorted ==
    pc = "done" =>
        /\ Len(key_levels) = Cardinality(PositiveEntries)
        /\ \A i \in PositiveEntries :
              \E k \in 1..Len(key_levels) :
                  /\ key_levels[k].name = all_levels[i][1]
                  /\ key_levels[k].value = all_levels[i][2]
        /\ \A k \in 1..(Len(key_levels) - 1) :
              RatLe(RatAbs(key_levels[k].distance_to_spot),
                    RatAbs(key_levels[k + 1].distance_to_spot))

\* Three levels on both sides of spot, the nearest inserted last, have been
\* sorted.
C5_Witness ==
    /\ pc = "done"
    /\ Len(key_levels) = 3
    /\ key_levels[1].name = all_levels[3][1]
    /\ \E k \in 1..3 : key_levels[k].distance_to_spot.n < 0
    /\ \E k \in 1..3 : key_levels[k].distance_to_spot.n > 0

\* C6: for the base confidence of every level name, the confidence lies in
\* [0, 1], equals the base at distance 0 and equals 0.1 * base wherever
\* |distance| >= 100.
C6_ConfidenceRange ==
    \A e \in conf_log :
        LET base == BaseConfidence(conf_name)
        IN  /\ RatLe(RatInt(0), e.confidence) /\ RatLe(e.confidence, RatInt(1))
            /\ e.distance_pct = RatInt(0) => e.confidence = base
            /\ RatLe(RatInt(100), RatAbs(e.distance_pct))
                  => e.confidence = RatMul(Rat(1, 10), base)

\* The confidence has been computed at distance 0 and at a distance beyond
\* 100 percent.
C6_Witness ==
    /\ \E e \in conf_log : e.distance_pct = RatInt(0)
    /\ \E e \in conf_log : RatLt(RatInt(100), RatAbs(e.distance_pct))

\* C7 as stated: for a fixed base the confidence is strictly decreasing in
\* |distance|.
C7_StrictlyDecreasing ==
    \A e1, e2 \in conf_log :
        RatLt(RatAbs(e1.distance_pct), RatAbs(e2.distance_pct))
            => RatLt(e2.confidence, e1.confidence)

\* C7 amended: for a fixed base the confidence never increases with
\* |distance|, and from 90 percent on it stays at 0.1 * base.
C7_NonIncreasing ==
    \A e1, e2 \in conf_log :
        RatLt(RatAbs(e1.distance_pct), RatAbs(e2.distance_pct))
            => /\ RatLe(e2.confidence, e1.confidence)
               /\ RatLe(RatInt(90), RatAbs(e1.distance_pct))
                     => /\ e1.confidence = RatMul(Rat(1, 10), BaseConfidence(conf_name))
                        /\ e2.confidence = e1.confidence

\* The confidence has been computed at two distances of opposite sign, one
\* below and one beyond 90 percent.
C7_Witness ==
    \E e1, e2 \in conf_log :
        /\ e1.distance_pct.n < 0
        /\ RatLt(RatAbs(e1.distance_pct), RatInt(90))
        /\ RatLt(RatInt(90), e2.distance_pct)
        /\ RatLt(e2.confidence, e1.confidence)

\* The tape with the records the loop skips removed
KeptTrades == SelectSeq(options_trades, LAMBDA trade : ~TradeSkipped(trade))

\* C9: a skipped trade record has no effect: the flow levels returned for a
\* tape equal those returned for the tape with its skipped records removed.
C9_SkippedHaveNoEffect ==
    pc = "merge" =>
        flow_levels = analyze_complete_options_flow(KeptTrades, spot_price, now)

\* C8: once the fetched spot price is missing or <= 0, no other fetch is ever
\* started and no level is computed; the function ends with an error and
\* returns no key-level list.
C8_NoSpotNoFetch ==
    (pc # "start" /\ spot_price <= 0) =>
        /\ pc \in {"spot_check", "failed"}
        /\ (pc = "failed" => error \in {"ValueError", "fetch_index_price"})
        /\ fetches = IdleFetches
        /\ hvl_levels = <<>> /\ option_analysis = <<>> /\ flow_levels = <<>>
        /\ all_levels = <<>> /\ key_levels = <<>>

\* A zero spot price has been fetched and the function has raised ValueError.
C8_Witness ==
    pc = "failed" /\ error = "ValueError" /\ spot_price = 0

NoPositiveOI == \A i \in 1..Len(instruments) : instruments[i].open_interest <= 0

OptionLevelsOf(analysis) == DictGet(analysis, "levels", <<>>)

\* The 1D Max / 1D Min levels that are positive, as (name, price) pairs
PositiveDailyLevels ==
    (IF stats_24h.high_24h > 0
     THEN {<<"1D Max", RatInt(stats_24h.high_24h)>>} ELSE {})
    \cup (IF stats_24h.low_24h > 0
          THEN {<<"1D Min", RatInt(stats_24h.low_24h)>>} ELSE {})

AllInputsEmpty ==
    Len(instruments) = 0 /\ Len(futures_trades) = 0 /\ Len(options_trades) = 0

\* C10: empty inputs never raise.  An empty instrument list gives an empty
\* option analysis, an empty or entirely discarded tape an empty flow map,
\* empty futures trades no HVL, no instrument of positive OI no Gamma Wall;
\* with all inputs empty the key levels are exactly the positive 1D Max/Min.
C10_EmptyInputs ==
    /\ pc \in {"options", "group", "flow", "merge", "compose", "done"} =>
          /\ error = "none"
          /\ (Len(futures_trades) = 0 => hvl_levels = <<>>)
    /\ pc \in {"flow", "merge", "compose", "done"} =>
          /\ (Len(instruments) = 0 => option_analysis = <<>>)
          /\ (NoPositiveOI =>
                /\ ~DictHas(OptionLevelsOf(option_analysis), "Gamma Wall (Short Gamma)")
                /\ ~DictHas(OptionLevelsOf(option_analysis), "Gamma Wall (Long Gamma)"))
    /\ pc \in {"merge", "compose", "done"} =>
          ((\A i \in 1..Len(options_trades) : TradeSkipped(options_trades[i]))
              => flow_levels = <<>>)
    /\ (pc = "done" /\ AllInputsEmpty) =>
          {<<key_levels[k].name, key_levels[k].value>> : k \in 1..Len(key_levels)}
              = PositiveDailyLevels

\* generate_key_levels has returned with every input empty and only a
\* positive 24 h high.
C10_Witness ==
    /\ pc = "done"
    /\ AllInputsEmpty
    /\ stats_24h.high_24h > 0 /\ stats_24h.low_24h = 0
    /\ Len(key_levels) = 1

\* The timeframes with the names of their P/C ratio and ATM IV entries and
\* the time to expiry their band is computed for
Timeframes ==
    {[ratio |-> "Current", iv |-> "current", days |-> RatInt(7), list |-> current_instruments],
     [ratio |-> "0DTE", iv |-> "dte0", days |-> Rat(1, 10), list |-> dte0_instruments],
     [ratio |-> "1W", iv |-> "week1", days |-> RatInt(7), list |-> week1_instruments],
     [ratio |-> "1M", iv |-> "month1", days |-> RatInt(30), list |-> month1_instruments]}

\* process_timeframe sorts every instrument of positive OI into one of two
\* buckets: the calls, and all the others (the puts).
InBucket(inst, calls) == inst.open_interest > 0 /\ (is_call(inst) <=> calls)

\* Strike k lies in (spot, spot * (1 + band/100)] for calls, in
\* [spot * (1 - band/100), spot) for puts
InBand(k, calls, band, spot) ==
    IF calls
    THEN k > spot /\ RatLe(RatInt(100 * k), RatMul(RatInt(spot), RatAdd(RatInt(100), band)))
    ELSE k < spot /\ RatLe(RatMul(RatInt(spot), RatSub(RatInt(100), band)), RatInt(100 * k))

\* The at most 10 in-band strikes of a bucket nearest to spot
NearestStrikes(list, calls, band, spot) ==
    LET S == {list[i].strike : i \in {j \in 1..Len(list) :
                  InBucket(list[j], calls) /\ InBand(list[j].strike, calls, band, spot)}}
    IN  {k \in S : Cardinality({x \in S : IF calls THEN x < k ELSE x > k}) < 10}

\* Open interest of a bucket summed over the instruments at the strikes K
BucketOI(list, calls, K) ==
    SumSeq([i \in 1..Len(list) |->
               IF InBucket(list[i], calls) /\ list[i].strike \in K
               THEN list[i].open_interest ELSE 0])

Reported(analysis, key, name) == DictGet(DictGet(analysis, key, <<>>), name, NonePrice)

\* C11: for each timeframe the reported Put/Call ratio is the put OI total
\* (of the filtered put strikes) over the call OI total (of the filtered call
\* strikes) when the call total is > 0 and 0 otherwise; it is a finite number.
C11_PutCallRatio ==
    (pc = "flow" /\ Len(instruments) > 0) =>
        \A tf \in Timeframes :
            LET list == Deref(instruments, tf.list)
                band == calculate_dynamic_band(Reported(option_analysis, "iv_data", tf.iv),
                                               tf.days)
                call_total == BucketOI(list, TRUE,
                                  NearestStrikes(list, TRUE, band, spot_price))
                put_total == BucketOI(list, FALSE,
                                  NearestStrikes(list, FALSE, band, spot_price))
                ratio == Reported(option_analysis, "put_call_ratios", tf.ratio)
            IN  /\ ratio.d > 0
                /\ IF call_total > 0
                   THEN ratio.n * call_total = put_total * ratio.d
                   ELSE ratio = RatInt(0)

\* The analysis has reported the ratio 3/2 for the 0DTE timeframe, which
\* holds a call and a put inside the band, and 0 for the Current timeframe,
\* which holds no instrument.
C11_Witness ==
    /\ pc = "flow" /\ Len(instruments) = 2
    /\ Len(dte0_instruments) = 2 /\ Len(current_instruments) = 0
    /\ Reported(option_analysis, "put_call_ratios", "0DTE") = Rat(3, 2)
    /\ Reported(option_analysis, "put_call_ratios", "Current") = RatInt(0)

\* C12: the four fetches are started together; levels are computed only
\* after all four have completed, whatever the order of their completion;
\* when one of them fails the failure reaches the caller and no key-level
\* list is computed or returned.
C12_JoinSemantics ==
    /\ (\E f \in FetchNames : fetches[f] = "idle") => fetches = IdleFetches
    /\ (pc \in {"options", "group", "flow", "merge", "compose", "done"}
           \/ hvl_levels # <<>> \/ option_analysis # <<>> \/ flow_levels # <<>>
           \/ all_levels # <<>> \/ key_levels # <<>>)
         => \A f \in FetchNames : fetches[f] = "done"
    /\ (\E f \in FetchNames : fetches[f] = "failed")
         => /\ pc = "failed" /\ error \in FetchNames /\ fetches[error] = "failed"
            /\ key_levels = <<>>

\* generate_key_levels has returned a non-empty list after all four fetches
\* completed the gather.
C12_Witness ==
    /\ pc = "done" /\ Len(key_levels) > 0
    /\ \A f \in FetchNames : fetches[f] = "done"

\* Position of the entry of name in the merged dict
PositionOf(levels, name) == CHOOSE i \in 1..Len(levels) : levels[i][1] = name

\* The name -> price map that a key-level list stands for
LevelMapOf(kls) == [k \in 1..Len(kls) |-> <<kls[k].name, kls[k].value>>]

\* C13: the composition is deterministic and idempotent: its result is the
\* one sequence fixed by the merged map and the spot, in which the levels
\* appear by ascending |distance| and levels of equal |distance| in the order
\* of the merged map, so every run on the same map and spot gives this same
\* sequence, and composing the result once more leaves it unchanged.
C13_DeterministicComposition ==
    pc = "done" =>
        /\ Len(key_levels) = Cardinality(PositiveEntries)
        /\ \A k \in 1..Len(key_levels) :
              \E i \in PositiveEntries :
                  key_levels[k] =
                      LET distance == calculate_distance_to_spot(all_levels[i][2], spot_price)
                      IN  KeyLevel(all_levels[i][1], all_levels[i][2], distance,
                              calculate_confidence(BaseConfidence(all_levels[i][1]), distance))
        /\ \A k \in 1..(Len(key_levels) - 1) :
              LET a == RatAbs(key_levels[k].distance_to_spot)
                  b == RatAbs(key_levels[k + 1].distance_to_spot)
              IN  \/ RatLt(a, b)
                  \/ /\ a = b
                     /\ PositionOf(all_levels, key_levels[k].name)
                           < PositionOf(all_levels, key_levels[k + 1].name)
        /\ SortedKeyLevels(LevelMapOf(key_levels), spot_price) = key_levels

\* Two levels at the same |distance| on opposite sides of spot, the one above
\* spot first in the merged map, have been composed with a nearer third one.
C13_Witness ==
    /\ pc = "done"
    /\ Len(key_levels) = 3
    /\ key_levels[2].distance_to_spot = RatInt(50)
    /\ key_levels[3].distance_to_spot = RatInt(-50)
    /\ key_levels[1].name = all_levels[3][1]

\* The instruments of a list whose side is C or P
WithSide(list) ==
    SelectSeq(Deref(instruments, list), LAMBDA inst : inst.option_type \in {"C", "P"})

\* C14: only instruments of side C count as calls and only instruments of
\* side P count as puts; an instrument whose fourth name field is neither C
\* nor P affects no Call Resistance, Put Support, Put/Call ratio or Gamma
\* Wall: the levels and ratios are those of the instruments of side C or P.
C14_OtherSidesIgnored ==
    (pc = "flow" /\ Len(instruments) > 0) =>
        LET parsed == OptionAnalysis(
                          Groups(WithSide(current_instruments), WithSide(dte0_instruments),
                                 WithSide(week1_instruments), WithSide(month1_instruments)),
                          spot_price)
        IN  /\ DictGet(option_analysis, "levels", <<>>) = DictGet(parsed, "levels", <<>>)
            /\ DictGet(option_analysis, "put_call_ratios", <<>>)
                   = DictGet(parsed, "put_call_ratios", <<>>)

\* The rules of the timeframes in plain hours and days: e is an expiry day,
\* t a clock value in hours.
ExpiresWithinDay(e, t) == 0 < e * 24 + 8 - t /\ e * 24 + 8 - t <= 24
OnNextFriday(e, t) ==
    LET today == t \div 24
    IN  e > today /\ e <= today + 7 /\ Weekday(e * 24) = 4
DaysToExpiry(e, t) == (e * 24 - t) \div 24

\* The list that holds instrument i ("none" if no list does)
PlacedIn(i) ==
    IF Occurrences(dte0_instruments, i) > 0 THEN "0DTE"
    ELSE IF Occurrences(week1_instruments, i) > 0 THEN "1W"
    ELSE IF Occurrences(month1_instruments, i) > 0 THEN "1M"
    ELSE IF Occurrences(current_instruments, i) > 0 THEN "Current"
    ELSE "none"

\* The loop has just placed an instrument with an expiry date
JustPlaced == pc = "group" /\ inst_idx > 0 /\ last_reads # <<>>
                 /\ instruments[inst_idx].expiry_date # <<>>

\* C15: the earliest rule in the order 0DTE, Current, 1W, 1M wins: an
\* instrument that is 0DTE goes to 0DTE even when it expires on the
\* next-Friday anchor, and one on the anchor that is not 0DTE goes to Current
\* even when its days-to-expiry is in [5, 12].
C15_RuleOrder ==
    JustPlaced =>
        LET e == instruments[inst_idx].expiry_date[1]
            t == last_reads
        IN  /\ ExpiresWithinDay(e, t[1]) => PlacedIn(inst_idx) = "0DTE"
            /\ (~ExpiresWithinDay(e, t[1]) /\ OnNextFriday(e, t[2]))
                  => PlacedIn(inst_idx) = "Current"
            /\ PlacedIn(inst_idx) = "1M" => ~(DaysToExpiry(e, t[3]) \in 5..12)

\* On a Friday the loop has placed in Current an instrument that expires on
\* the anchor, the Friday after, six days-to-expiry ahead.
C15_Witness ==
    /\ JustPlaced
    /\ LET e == instruments[inst_idx].expiry_date[1]
       IN  /\ OnNextFriday(e, last_reads[2])
           /\ DaysToExpiry(e, last_reads[3]) \in 5..12
           /\ PlacedIn(inst_idx) = "Current"

-----------------------------------------------------------------------------
(* Specification of the four expiry rules alone: one expiry date (or none) *)
(* and any hour of a week as the clock.                                    *)

RuleNows == {d * HoursPerDay + h : d \in FirstDay..(FirstDay + 6), h \in 0..(HoursPerDay - 1)}
RuleOffsets == (-1..8) \cup {21, 41}

RuleExpiries(t0) == {<<>>} \cup {<<(t0 \div HoursPerDay) + off>> : off \in RuleOffsets}

\* is_0dte, is_current_weekly_monthly, is_1w_expiry and is_1m_expiry applied
\* to the expiry date of the one instrument, each reading the clock.
EvalRules ==
    /\ pc = "rules"
    /\ LET expiry_date == instruments[1].expiry_date
       IN  rule_result' = <<[is_0dte |-> is_0dte(expiry_date, now),
                             days_until_friday |-> days_until_friday(now),
                             is_current |-> is_current_weekly_monthly(expiry_date, now),
                             is_1w |-> is_1w_expiry(expiry_date, now),
                             is_1m |-> is_1m_expiry(expiry_date, now)]>>
    /\ pc' = "rules_done"
    /\ UNCHANGED <<now, genVars, groupVars, filterVars, tradeVars, confVars,
                   pt_timeframe, pt_result, band_iv, band_log, gw_result,
                   retryVars>>

InitExpiry ==
    /\ now \in RuleNows
    /\ pc = "rules"
    /\ spot_price = 100
    /\ instruments \in {<<Instrument(e, 105, "C", 1, 50)>> : e \in RuleExpiries(now)}
    /\ GenIdle /\ GroupIdle /\ FilterIdle /\ TradeIdle /\ ConfIdle /\ EvalIdle /\ RetryIdle

NextExpiry == EvalRules

SpecExpiry == InitExpiry /\ [][NextExpiry]_vars

\* C16: is_0dte is true if and only if 08:00 UTC of the expiry date lies
\* strictly after now and at most 24 hours after now; an expiry exactly at
\* now is not 0DTE, one exactly 24 hours ahead is.
C16_ZeroDTEWindow ==
    pc = "rules_done" =>
        LET e == instruments[1].expiry_date
            r == rule_result[1].is_0dte
        IN  /\ r <=> (e # <<>> /\ ExpiresWithinDay(e[1], now))
            /\ (e # <<>> /\ e[1] * 24 + 8 = now) => ~r
            /\ (e # <<>> /\ e[1] * 24 + 8 = now + 24) => r

\* is_0dte has answered true at 08:00 for the expiry of the day after.
C16_Witness ==
    /\ pc = "rules_done"
    /\ instruments[1].expiry_date # <<>>
    /\ instruments[1].expiry_date[1] * 24 + 8 = now + 24
    /\ rule_result[1].is_0dte

\* C17: the Current anchor is the first Friday strictly after today: 1 to 7
\* days ahead, a Friday, 7 days ahead when today is Friday; and
\* is_current_weekly_monthly is true exactly for an expiry date equal to the
\* anchor date.
C17_NextFridayAnchor ==
    pc = "rules_done" =>
        LET e == instruments[1].expiry_date
            d == rule_result[1].days_until_friday
            today == now \div 24
        IN  /\ d \in 1..7
            /\ (today + d) % 7 = 4
            /\ \A k \in 1..(d - 1) : (today + k) % 7 # 4
            /\ (today % 7 = 4) => d = 7
            /\ rule_result[1].is_current <=> (e # <<>> /\ e[1] = today + d)

\* On a Friday is_current_weekly_monthly has answered true for the Friday
\* of the week after.
C17_Witness ==
    /\ pc = "rules_done"
    /\ (now \div 24) % 7 = 4
    /\ instruments[1].expiry_date = <<(now \div 24) + 7>>
    /\ rule_result[1].is_current
    /\ rule_result[1].days_until_friday = 7

-----------------------------------------------------------------------------
(* Specification of the grouping of one instrument whose expiry lies from  *)
(* one day behind to 43 days ahead of the clock's day.                      *)

PlaceOffsets == -1..43

InitPlace ==
    /\ now \in NowSamples
    /\ pc = "options"
    /\ spot_price = 100
    /\ instruments \in {<<Instrument(<<(now \div HoursPerDay) + off>>, 105, "C", 1, 50)>> :
                           off \in PlaceOffsets}
    /\ GenIdle /\ GroupIdle /\ FilterIdle /\ TradeIdle /\ ConfIdle /\ EvalIdle /\ RetryIdle

NextPlace == StartOptionLevels \/ GroupStep \/ FinishOptionLevels

SpecPlace == InitPlace /\ [][NextPlace]_vars

\* C18: an instrument that is neither 0DTE nor on the Current anchor is
\* placed in 1W iff its days-to-expiry is in [5, 12], in 1M iff it is in
\* [20, 40], and in Current otherwise.
C18_DaysToExpiryRules ==
    JustPlaced =>
        LET e == instruments[inst_idx].expiry_date[1]
            t == last_reads
        IN  (~ExpiresWithinDay(e, t[1]) /\ ~OnNextFriday(e, t[2])) =>
                /\ PlacedIn(inst_idx) = "1W" <=> DaysToExpiry(e, t[3]) \in 5..12
                /\ PlacedIn(inst_idx) = "1M" <=> DaysToExpiry(e, t[4]) \in 20..40
                /\ PlacedIn(inst_idx) = "Current"
                       <=> (DaysToExpiry(e, t[3]) \notin 5..12
                               /\ DaysToExpiry(e, t[4]) \notin 20..40)

\* The loop has placed in 1W an instrument, neither 0DTE nor on the anchor,
\* with exactly 5 days-to-expiry.
C18_Witness ==
    /\ JustPlaced
    /\ LET e == instruments[inst_idx].expiry_date[1]
       IN  /\ ~ExpiresWithinDay(e, last_reads[1])
           /\ ~OnNextFriday(e, last_reads[2])
           /\ DaysToExpiry(e, last_reads[3]) = 5
           /\ PlacedIn(inst_idx) = "1W"

-----------------------------------------------------------------------------
(* Specification of calculate_dynamic_band alone: one IV, and at most      *)
(* MaxEvals times to expiry.                                               *)

IVSamples == {RatInt(0), RatInt(10), Rat(100, 3), RatInt(50), Rat(500, 3), RatInt(200)}
DaysSamples ==
    {RatInt(k) : k \in {-1, 0, 1, 2, 7, 8, 10, 11, 12, 27, 30, 100}}
        \cup {Rat(1, 10), Rat(15, 2), Rat(21, 2)}

EvalBand ==
    /\ pc = "band"
    /\ Cardinality(band_log) < MaxEvals
    /\ \E days \in DaysSamples :
          band_log' = band_log \cup
              {[days |-> days, band |-> calculate_dynamic_band(band_iv, days)]}
    /\ UNCHANGED <<now, pc, genVars, groupVars, filterVars, tradeVars, confVars,
                   pt_timeframe, pt_result, rule_result, band_iv, gw_result,
                   retryVars>>

InitBand ==
    /\ now = FirstDay * HoursPerDay
    /\ pc = "band"
    /\ spot_price = 100
    /\ instruments = <<>>
    /\ GenIdle /\ GroupIdle /\ FilterIdle /\ TradeIdle /\ ConfIdle
    /\ pt_timeframe = ""
    /\ pt_result = <<>>
    /\ rule_result = <<>>
    /\ band_iv \in IVSamples
    /\ band_log = {}
    /\ gw_result = <<>>
    /\ RetryIdle

NextBand == EvalBand

SpecBand == InitBand /\ [][NextBand]_vars

\* The time factor and the band as the statement gives them
StatedTimeFactor(days) ==
    IF RatLe(days, RatInt(1)) THEN RatInt(1)
    ELSE IF RatLe(days, RatInt(7)) THEN Rat(6, 5)
    ELSE LET grown == Rat(13 * days.d + days.n, 20 * days.d)    \* 1 + (days - 7) / 20
         IN  IF RatLt(RatInt(2), grown) THEN RatInt(2) ELSE grown

StatedBase(iv) ==
    LET scaled == Rat(3 * iv.n, 10 * iv.d)
    IN  IF RatLt(scaled, RatInt(10)) THEN RatInt(10)
        ELSE IF RatLt(RatInt(50), scaled) THEN RatInt(50) ELSE scaled

BandFormulaAndRange ==
    \A e \in band_log :
        /\ e.band = RatMul(StatedBase(band_iv), StatedTimeFactor(e.days))
        /\ RatLe(RatInt(10), e.band) /\ RatLe(e.band, RatInt(100))

\* Times to expiry on the two sides of the step at 7 days where the time
\* factor falls from 1.2 to less
AcrossStep(d1, d2) ==
    /\ RatLt(RatInt(1), d1) /\ RatLe(d1, RatInt(7))
    /\ RatLt(RatInt(7), d2) /\ RatLt(d2, RatInt(11))

\* C19 as stated: the band follows the formula, lies in [10, 100], and for a
\* fixed IV is non-decreasing in time-to-expiry.
C19_BandNonDecreasing ==
    /\ BandFormulaAndRange
    /\ \A a, b \in band_log : RatLt(a.days, b.days) => RatLe(a.band, b.band)

\* C19, amended: the band follows the formula, lies in [10, 100], and for a
\* fixed IV is non-decreasing in time-to-expiry except across the step at 7
\* days: for 1 < d1 <= 7 < d2 < 11 the band at d2 is not larger than at d1.
C19_BandNonDecreasingExceptStep ==
    /\ BandFormulaAndRange
    /\ \A a, b \in band_log :
          RatLt(a.days, b.days) =>
              IF AcrossStep(a.days, b.days)
              THEN RatLe(b.band, a.band)
              ELSE RatLe(a.band, b.band)

\* The band has been computed for 7 and for 8 days at an IV of 50: 18 and
\* 15.75.
C19_Witness ==
    /\ pc = "band" /\ band_iv = RatInt(50)
    /\ [days |-> RatInt(7), band |-> RatInt(18)] \in band_log
    /\ [days |-> RatInt(8), band |-> Rat(63, 4)] \in band_log

-----------------------------------------------------------------------------
(* Specification of process_timeframe alone: the instruments of one        *)
(* timeframe are a call and a put at every strike of a run, in ascending   *)
(* or descending order, followed by some further instruments.              *)

TimeframeNames == {"", "0DTE", "1W", "1M"}

TimeframeRuns ==
    {lo..hi : lo \in {StrikeLo, 95, 99, 101}, hi \in {99, 101, 105, StrikeHi}}

\* A second call at a strike of the runs, a call without open interest, a
\* second put, and a call of large open interest far above spot
FurtherInstruments ==
    <<Instrument(<<FirstDay>>, 102, "C", 5, 50), Instrument(<<FirstDay>>, 101, "C", 0, 50),
      Instrument(<<FirstDay>>, 98, "P", 4, 50), Instrument(<<FirstDay>>, 120, "C", 9, 50)>>

RunInstruments(S, ascending) ==
    LET dict == StrikesDict(S, ascending)
    IN  [i \in 1..(2 * Len(dict)) |->
            Instrument(<<FirstDay>>, dict[(i + 1) \div 2][1],
                       IF i % 2 = 1 THEN "C" ELSE "P", dict[(i + 1) \div 2][2], 50)]

TimeframeLists ==
    {RunInstruments(S, ascending)
         \o SelectSeq(FurtherInstruments, LAMBDA inst : inst \in further) :
       S \in TimeframeRuns, ascending \in BOOLEAN,
       further \in SUBSET {FurtherInstruments[i] : i \in 1..Len(FurtherInstruments)}}

ProcessTimeframe ==
    /\ pc = "timeframe"
    /\ pt_result' = <<process_timeframe(instruments, pt_timeframe, pt_band, spot_price)>>
    /\ pc' = "timeframe_done"
    /\ UNCHANGED <<now, genVars, groupVars, filterVars, tradeVars, confVars,
                   pt_timeframe, rule_result, band_iv, band_log, gw_result,
                   retryVars>>

InitTimeframe ==
    /\ now = FirstDay * HoursPerDay
    /\ pc = "timeframe"
    /\ spot_price \in SpotSamples
    /\ instruments \in TimeframeLists
    /\ GenIdle /\ GroupIdle /\ TradeIdle /\ ConfIdle
    /\ pt_call_strikes = <<>>
    /\ pt_put_strikes = <<>>
    /\ pt_band \in BandSamples
    /\ pt_filtered_calls = <<>>
    /\ pt_filtered_puts = <<>>
    /\ pt_timeframe \in TimeframeNames
    /\ pt_result = <<>>
    /\ rule_result = <<>>
    /\ band_iv = RatInt(0)
    /\ band_log = {}
    /\ gw_result = <<>>
    /\ RetryIdle

NextTimeframe == ProcessTimeframe

SpecTimeframe == InitTimeframe /\ [][NextTimeframe]_vars

\* The level reported under name is a strike of K with the largest summed
\* open interest of its bucket in K, and is absent exactly when K is empty
LevelIsMaxOI(name, calls, K) ==
    LET level == DictGet(pt_result[1].levels, name, NonePrice)
    IN  IF K = {} THEN level = NonePrice
        ELSE \E k \in K :
                /\ level = RatInt(k)
                /\ \A x \in K : BucketOI(instruments, calls, {x})
                                   <= BucketOI(instruments, calls, {k})

\* C20: the reported Call Resistance is a strike of the band-filtered call
\* set (the at most 10 lowest call strikes in (spot, spot*(1+band/100)] with
\* positive OI) whose OI summed over the instruments at that strike is
\* maximal in the set; Put Support likewise for the at most 10 highest put
\* strikes in [spot*(1-band/100), spot); a level is absent exactly when its
\* set is empty.
C20_LevelsAreMaxOI ==
    pc = "timeframe_done" =>
        /\ LevelIsMaxOI(CallResistanceName(pt_timeframe), TRUE,
                        NearestStrikes(instruments, TRUE, pt_band, spot_price))
        /\ LevelIsMaxOI(PutSupportName(pt_timeframe), FALSE,
                        NearestStrikes(instruments, FALSE, pt_band, spot_price))

\* With 14 call strikes between spot and the band edge, Call Resistance 1W
\* is 102, the strike with two calls, although the call at 120 has more
\* open interest; Put Support 1W is 98.
C20_Witness ==
    /\ pc = "timeframe_done" /\ pt_timeframe = "1W"
    /\ spot_price = 100 /\ pt_band = RatInt(100)
    /\ \A k \in 101..114 : \E i \in 1..Len(instruments) :
          instruments[i].strike = k /\ instruments[i].option_type = "C"
    /\ \E i \in 1..Len(instruments) : instruments[i] = FurtherInstruments[4]
    /\ DictGet(pt_result[1].levels, "Call Resistance 1W", NonePrice) = RatInt(102)
    /\ DictGet(pt_result[1].levels, "Put Support 1W", NonePrice) = RatInt(98)

\* Position of the first instrument of a bucket at strike k
FirstEncounter(list, calls, k) ==
    CHOOSE i \in 1..Len(list) :
        /\ InBucket(list[i], calls) /\ list[i].strike = k
        /\ \A j \in 1..(i - 1) : ~(InBucket(list[j], calls) /\ list[j].strike = k)

\* The strikes of K whose summed open interest is the largest in K
MaxOIStrikes(list, calls, K) ==
    {k \in K : \A x \in K : BucketOI(list, calls, {x}) <= BucketOI(list, calls, {k})}

\* The level reported under name is the strike of largest open interest in
\* K that comes first in the instrument list
LevelIsFirstEncountered(name, calls, K) ==
    K # {} =>
        LET tied == MaxOIStrikes(instruments, calls, K)
            first == CHOOSE k \in tied :
                        \A x \in tied : FirstEncounter(instruments, calls, k)
                                           <= FirstEncounter(instruments, calls, x)
        IN  DictGet(pt_result[1].levels, name, NonePrice) = RatInt(first)

\* C21: when filtered strikes of one side tie for the largest aggregated open
\* interest, the reported Call Resistance / Put Support is the tied strike
\* that was encountered first in the order of the input instruments.
C21_TieFirstEncountered ==
    pc = "timeframe_done" =>
        /\ LevelIsFirstEncountered(CallResistanceName(pt_timeframe), TRUE,
               NearestStrikes(instruments, TRUE, pt_band, spot_price))
        /\ LevelIsFirstEncountered(PutSupportName(pt_timeframe), FALSE,
               NearestStrikes(instruments, FALSE, pt_band, spot_price))

-----------------------------------------------------------------------------
(* Specification of calculate_gamma_wall alone: at most MaxInstruments     *)
(* 0DTE instruments at, near and far from spot.                            *)

GammaInstruments ==
    {Instrument(<<FirstDay>>, strike, side, oi, 50) :
        strike \in {95, 100, 130}, side \in {"C", "P"}, oi \in {0, 2, 20}}

GammaWall ==
    /\ pc = "gamma"
    /\ gw_result' = calculate_gamma_wall(instruments, spot_price)
    /\ pc' = "gamma_done"
    /\ UNCHANGED <<now, genVars, groupVars, filterVars, tradeVars, confVars,
                   pt_timeframe, pt_result, rule_result, band_iv, band_log, retryVars>>

InitGamma ==
    /\ now = FirstDay * HoursPerDay
    /\ pc = "gamma"
    /\ spot_price = 100
    /\ instruments \in SeqsUpTo(GammaInstruments, MaxInstruments)
    /\ GenIdle /\ GroupIdle /\ FilterIdle /\ TradeIdle /\ ConfIdle /\ EvalIdle /\ RetryIdle

NextGamma == GammaWall

SpecGamma == InitGamma /\ [][NextGamma]_vars

\* max(0.1, 1 - 5 * |spot - strike| / spot)
StatedGammaWeight(spot, strike) ==
    LET rest == spot - 5 * Abs(spot - strike)
    IN  IF 10 * rest < spot THEN Rat(1, 10) ELSE Rat(rest, spot)

\* Net gamma of the instruments with positive OI at strike k: calls count
\* positive, the others negative
NetGamma(list, spot, k) ==
    LET signed_oi == SumSeq([i \in 1..Len(list) |->
                        IF list[i].strike = k /\ list[i].open_interest > 0
                        THEN IF is_call(list[i]) THEN list[i].open_interest
                             ELSE 0 - list[i].open_interest
                        ELSE 0])
    IN  RatMul(StatedGammaWeight(spot, k), RatInt(signed_oi))

PositiveOIStrikes(list) ==
    {list[i].strike : i \in {j \in 1..Len(list) : list[j].open_interest > 0}}

\* C22: calculate_gamma_wall returns exactly one level, at a strike with the
\* largest |net| among the strikes with positive OI, where net is the sum of
\* max(0.1, 1 - 5*|spot-strike|/spot) * oi, negated for puts; the label is
\* Short Gamma if that net is < 0 and Long Gamma otherwise (net = 0
\* included); it returns no level when no instrument has positive OI.
C22_GammaWall ==
    pc = "gamma_done" =>
        LET S == PositiveOIStrikes(instruments)
        IN  IF S = {} THEN gw_result = <<>>
            ELSE /\ Len(gw_result) = 1
                 /\ \E k \in S :
                       /\ gw_result[1][2] = RatInt(k)
                       /\ \A x \in S : RatLe(RatAbs(NetGamma(instruments, spot_price, x)),
                                             RatAbs(NetGamma(instruments, spot_price, k)))
                       /\ gw_result[1][1] =
                              IF NetGamma(instruments, spot_price, k).n < 0
                              THEN "Gamma Wall (Short Gamma)"
                              ELSE "Gamma Wall (Long Gamma)"

\* A call and a put of equal OI at the same strike, the only strike: the net
\* is 0 and the wall is reported there as Long Gamma.
C22_Witness ==
    /\ pc = "gamma_done"
    /\ Len(instruments) = 2
    /\ instruments[1].option_type = "C" /\ instruments[2].option_type = "P"
    /\ instruments[1].strike = 95 /\ instruments[2].strike = 95
    /\ instruments[1].open_interest = 20 /\ instruments[2].open_interest = 20
    /\ gw_result = <<<<"Gamma Wall (Long Gamma)", RatInt(95)>>>>

-----------------------------------------------------------------------------
(* Specification of analyze_complete_options_flow on tapes of well-formed  *)
(* trades at strikes below, at and above spot, so that several strikes     *)
(* compete for each flow level.                                            *)

MaxTapeLen == 4

TapeSamples(t) ==
    {OptionTrade(<<"BTC", "1JAN25", "110", "C">>, 1, 1, "buy", t),
     OptionTrade(<<"BTC", "1JAN25", "110", "P">>, 1, 1, "buy", t),
     OptionTrade(<<"BTC", "1JAN25", "120", "C">>, 2, 1, "buy", t - 12),
     OptionTrade(<<"BTC", "1JAN25", "120", "P">>, 2, 1, "sell", t),
     OptionTrade(<<"BTC", "1JAN25", "90", "P">>, 2, 1, "buy", t - 12),
     OptionTrade(<<"BTC", "1JAN25", "90", "C">>, 1, 1, "sell", t),
     OptionTrade(<<"BTC", "1JAN25", "80", "P">>, 1, 1, "buy", t),
     OptionTrade(<<"BTC", "1JAN25", "100", "C">>, 1, 1, "buy", t)}

InitTape ==
    /\ now = FirstDay * HoursPerDay
    /\ pc = "flow"
    /\ spot_price \in FlowSpots
    /\ instruments = <<>>
    /\ fetches = IdleFetches
    /\ stats_24h = NoStats
    /\ futures_trades = <<>>
    /\ options_trades \in SeqsUpTo(TapeSamples(now), MaxTapeLen)
    /\ hvl_levels = <<>>
    /\ option_analysis = <<>>
    /\ flow_levels = <<>>
    /\ all_levels = <<>>
    /\ key_levels = <<>>
    /\ error = "none"
    /\ GroupIdle /\ FilterIdle /\ TradeIdle /\ ConfIdle /\ EvalIdle /\ RetryIdle

NextTape == AnalyzeFlow

SpecTape == InitTape /\ [][NextTape]_vars

\* The aggregation, taken from the tape itself: for each strike of the
\* trades the loop keeps, the notional of the calls, of the others (the
\* puts), and the time-weighted delta-adjusted flow
TapeStrike(trade) == DictGet(StrikeValues, trade.instrument_name[3], 0)
TapeNotional(trade) == trade.amount * trade.price * spot_price
SideNotional(kept, k, calls) ==
    SumSeq([i \in 1..Len(kept) |->
               IF TapeStrike(kept[i]) = k /\ ((kept[i].instrument_name[4] = "C") <=> calls)
               THEN TapeNotional(kept[i]) ELSE 0])
WeightedFlow(kept, k) ==
    RatSumSeq([i \in 1..Len(kept) |->
        LET trade == kept[i]
        IN  IF TapeStrike(trade) # k THEN RatInt(0)
            ELSE RatMul(RatMul(RatInt(TapeNotional(trade)
                                        * (IF trade.direction = "buy" THEN 1 ELSE -1)),
                               calculate_delta_simple(spot_price, k, Rat(1, 365),
                                   trade.instrument_name[4] = "C")),
                        time_weight(now - trade.timestamp))])
TapeAggregate ==
    LET kept == KeptTrades
    IN  [k \in {TapeStrike(kept[i]) : i \in 1..Len(kept)} |->
            LET call == SideNotional(kept, k, TRUE)
                put == SideNotional(kept, k, FALSE)
            IN  [call |-> call, put |-> put, total |-> call + put,
                 smaller |-> IF call < put THEN call ELSE put,
                 larger |-> IF call < put THEN put ELSE call,
                 flow |-> WeightedFlow(kept, k)]]

FlowLevel(name) == DictGet(flow_levels, name, NonePrice)

\* (balance ratio, total notional) of x is at most that of k, lexicographically
BalanceAtMost(x, k) ==
    \/ x.smaller * k.larger < k.smaller * x.larger
    \/ (x.smaller * k.larger = k.smaller * x.larger /\ x.total <= k.total)

BalancedStrikes(agg) == {k \in DOMAIN agg : agg[k].call > 0 /\ agg[k].put > 0}

\* C23: Max Pain Flow is reported iff some strike has call notional > 0 and
\* put notional > 0, and is then the strike that maximizes
\* (min(call, put) / max(call, put), total notional) lexicographically among
\* these; HVS is reported for every non-empty aggregation and is a strike of
\* maximal total notional.
C23_MaxPainAndHVS ==
    pc = "merge" =>
        LET agg == TapeAggregate
            balanced == BalancedStrikes(agg)
        IN  DOMAIN agg # {} =>
              /\ \E k \in DOMAIN agg :
                    /\ FlowLevel("HVS") = RatInt(k)
                    /\ \A x \in DOMAIN agg : agg[x].total <= agg[k].total
              /\ IF balanced = {} THEN FlowLevel("Max Pain Flow") = NonePrice
                 ELSE \E k \in balanced :
                         /\ FlowLevel("Max Pain Flow") = RatInt(k)
                         /\ \A x \in balanced : BalanceAtMost(agg[x], agg[k])

\* Strike 90 holds more notional (puts 200, calls 100) than strike 110 (100
\* and 100), which is the better balanced: HVS is 90, Max Pain Flow 110.
C23_Witness ==
    /\ pc = "merge"
    /\ FlowLevel("HVS") = RatInt(90)
    /\ FlowLevel("Max Pain Flow") = RatInt(110)
    /\ BalancedStrikes(TapeAggregate) = {90, 110}
    /\ TapeAggregate[90].total = 300 /\ TapeAggregate[110].total = 200

CallFlowStrikes(agg) ==
    {k \in DOMAIN agg : k > spot_price /\ agg[k].call > agg[k].put}
PutFlowStrikes(agg) ==
    {k \in DOMAIN agg : k < spot_price /\ agg[k].put > agg[k].call}

\* C24: Call Flow Resistance, when reported, is a strike strictly above spot
\* whose call notional exceeds its put notional and whose weighted_flow is
\* maximal among such strikes; Put Flow Support is a strike strictly below
\* spot whose put notional exceeds its call notional and whose
\* |weighted_flow| is maximal among such strikes; each is absent exactly
\* when no strike meets its condition.
C24_FlowResistanceAndSupport ==
    pc = "merge" =>
        LET agg == TapeAggregate
            above == CallFlowStrikes(agg)
            below == PutFlowStrikes(agg)
        IN  DOMAIN agg # {} =>
              /\ IF above = {} THEN FlowLevel("Call Flow Resistance") = NonePrice
                 ELSE \E k \in above :
                         /\ FlowLevel("Call Flow Resistance") = RatInt(k)
                         /\ \A x \in above : RatLe(agg[x].flow, agg[k].flow)
              /\ IF below = {} THEN FlowLevel("Put Flow Support") = NonePrice
                 ELSE \E k \in below :
                         /\ FlowLevel("Put Flow Support") = RatInt(k)
                         /\ \A x \in below :
                               RatLe(RatAbs(agg[x].flow), RatAbs(agg[k].flow))

\* Two call strikes above spot and two put strikes below compete: the
\* levels are 110 and 80, the strikes of the recent trades, not 120 and 90,
\* the strikes of the larger but older ones.
C24_Witness ==
    /\ pc = "merge"
    /\ FlowLevel("Call Flow Resistance") = RatInt(110)
    /\ FlowLevel("Put Flow Support") = RatInt(80)
    /\ CallFlowStrikes(TapeAggregate) = {110, 120}
    /\ PutFlowStrikes(TapeAggregate) = {80, 90}

RECURSIVE SumOver(_, _)
SumOver(S, f) ==
    IF S = {} THEN 0
    ELSE LET k == CHOOSE x \in S : TRUE IN f[k] + SumOver(S \ {k}, f)

\* C25: for every tape that yields at least one aggregated strike, VWAS is
\* the sum over the aggregated strikes of strike * total notional divided by
\* the sum over the aggregated strikes of total notional, and so lies between
\* the smallest and the largest aggregated strike.
C25_VWASIsWeightedAverage ==
    pc = "merge" =>
        LET agg == TapeAggregate
            weighted == SumOver(DOMAIN agg, [k \in DOMAIN agg |-> k * agg[k].total])
            total == SumOver(DOMAIN agg, [k \in DOMAIN agg |-> agg[k].total])
        IN  DOMAIN agg # {} =>
              /\ FlowLevel("VWAS") = Rat(weighted, total)
              /\ \E k \in DOMAIN agg : RatLe(RatInt(k), FlowLevel("VWAS"))
              /\ \E k \in DOMAIN agg : RatLe(FlowLevel("VWAS"), RatInt(k))

-----------------------------------------------------------------------------
(* Specification of calculate_volume_profile_levels alone: any tape of at  *)
(* most MaxTrades futures trades with prices on both sides of 1000, some   *)
(* of them exactly half way between two buckets.                           *)

FuturesSamples ==
    {[price |-> RatInt(1005), amount |-> 1], [price |-> RatInt(1015), amount |-> 1],
     [price |-> RatInt(1004), amount |-> 1], [price |-> RatInt(1006), amount |-> 2],
     [price |-> Rat(1, 4), amount |-> 1], [price |-> Rat(3, 4), amount |-> 2],
     [price |-> RatInt(0), amount |-> 5], [price |-> RatInt(1005), amount |-> 0],
     [price |-> RatInt(-5), amount |-> 5]}

VolumeProfile ==
    /\ pc = "profile"
    /\ hvl_levels' = calculate_volume_profile_levels(futures_trades, spot_price)
    /\ pc' = "profile_done"
    /\ UNCHANGED <<now, spot_price, fetches, stats_24h, instruments, futures_trades,
                   options_trades, option_analysis, flow_levels, all_levels,
                   key_levels, error, groupVars, filterVars, tradeVars, confVars,
                   evalVars, retryVars>>

InitProfile ==
    /\ now = FirstDay * HoursPerDay
    /\ pc = "profile"
    /\ spot_price = 100
    /\ instruments = <<>>
    /\ fetches = IdleFetches
    /\ stats_24h = NoStats
    /\ futures_trades \in SeqsUpTo(FuturesSamples, MaxTrades)
    /\ options_trades = <<>>
    /\ hvl_levels = <<>>
    /\ option_analysis = <<>>
    /\ flow_levels = <<>>
    /\ all_levels = <<>>
    /\ key_levels = <<>>
    /\ error = "none"
    /\ GroupIdle /\ FilterIdle /\ TradeIdle /\ ConfIdle /\ EvalIdle /\ RetryIdle

NextProfile == VolumeProfile

SpecProfile == InitProfile /\ [][NextProfile]_vars

\* r is round(x): the integer nearest to x, the even one of the two when x
\* lies half way between them
IsRound(x, r) ==
    LET twice == Abs(2 * (x.n - r * x.d))    \* 2 * |x - r| * x.d
    IN  twice < x.d \/ (twice = x.d /\ r % 2 = 0)

\* round(x), found among the two integers around x
Rounded(x) == CHOOSE r \in {x.n \div x.d, (x.n \div x.d) + 1} : IsRound(x, r)

\* The bucket of price: round(price/10)*10 when price > 1000 and
\* round(price*10)/10 otherwise
BucketOf(price) ==
    IF RatLt(RatInt(1000), price)
    THEN RatInt(10 * Rounded(Rat(price.n, 10 * price.d)))
    ELSE Rat(Rounded(Rat(10 * price.n, price.d)), 10)

\* C26: calculate_volume_profile_levels ignores every trade with price <= 0
\* or amount <= 0, puts each remaining trade in the bucket round(price/10)*10
\* when price > 1000 and round(price*10)/10 otherwise, and returns as HVL a
\* bucket whose summed amount is maximal; it returns no HVL when no trade
\* remains.
C26_VolumeProfile ==
    pc = "profile_done" =>
        LET remaining == SelectSeq(futures_trades,
                                   LAMBDA trade : trade.price.n > 0 /\ trade.amount > 0)
            bucket == [i \in 1..Len(remaining) |-> BucketOf(remaining[i].price)]
            amount(b) == SumSeq([i \in 1..Len(remaining) |->
                                    IF bucket[i] = b THEN remaining[i].amount ELSE 0])
        IN  IF Len(remaining) = 0 THEN hvl_levels = <<>>
            ELSE /\ Len(hvl_levels) = 1
                 /\ hvl_levels[1].level = "HVL"
                 /\ \E i \in 1..Len(remaining) : bucket[i] = hvl_levels[1].price
                 /\ hvl_levels[1].volume = amount(hvl_levels[1].price)
                 /\ \A i \in 1..Len(remaining) : amount(bucket[i]) <= hvl_levels[1].volume

\* Prices 1005 and 1004 fall in the bucket 1000 (100.5 rounds to the even
\* 100), which with amount 2 outweighs the bucket 1020 of price 1015.
C26_Witness ==
    /\ pc = "profile_done"
    /\ \E i \in 1..Len(futures_trades) : futures_trades[i] = [price |-> RatInt(1005), amount |-> 1]
    /\ \E i \in 1..Len(futures_trades) : futures_trades[i] = [price |-> RatInt(1004), amount |-> 1]
    /\ \E i \in 1..Len(futures_trades) : futures_trades[i] = [price |-> RatInt(1015), amount |-> 1]
    /\ hvl_levels = <<[level |-> "HVL", price |-> RatInt(1000), volume |-> 2]>>

-----------------------------------------------------------------------------
(* Specification of process_timeframe on lists that hold strikes inside    *)
(* the band, outside it, on the wrong side of spot and beyond the cap of   *)
(* 10 strikes.                                                             *)

FrameLists ==
    {RunInstruments(S, ascending)
         \o SelectSeq(FurtherInstruments, LAMBDA inst : inst \in further) :
       S \in {95..112, 88..105, 95..105}, ascending \in BOOLEAN,
       further \in SUBSET {FurtherInstruments[1], FurtherInstruments[4]}}

FrameBands == {RatInt(10), RatInt(12), RatInt(100)}

InitFrame ==
    /\ now = FirstDay * HoursPerDay
    /\ pc = "timeframe"
    /\ spot_price \in SpotSamples
    /\ instruments \in FrameLists
    /\ GenIdle /\ GroupIdle /\ TradeIdle /\ ConfIdle
    /\ pt_call_strikes = <<>>
    /\ pt_put_strikes = <<>>
    /\ pt_band \in FrameBands
    /\ pt_filtered_calls = <<>>
    /\ pt_filtered_puts = <<>>
    /\ pt_timeframe = "1W"
    /\ pt_result = <<>>
    /\ rule_result = <<>>
    /\ band_iv = RatInt(0)
    /\ band_log = {}
    /\ gw_result = <<>>
    /\ RetryIdle

NextFrame == ProcessTimeframe

SpecFrame == InitFrame /\ [][NextFrame]_vars

\* The strike of instrument i lies outside the band or on the wrong side of
\* spot, or beyond the 10 strikes of its side nearest to spot
OutsideFilteredSet(i) ==
    LET inst == instruments[i]
        calls == is_call(inst)
        K == NearestStrikes(instruments, calls, pt_band, spot_price)
    IN  \/ ~InBand(inst.strike, calls, pt_band, spot_price)
        \/ /\ Cardinality(K) = 10
           /\ \A x \in K : IF calls THEN x < inst.strike ELSE x > inst.strike

ChangedOI == {0, 7}

RatioOf(result) == calc_pc_ratio(result.call_oi, result.put_oi)

\* C27: the Put/Call ratio of a timeframe depends on the band-filtered,
\* 10-strike-capped strike sets only: changing the open interest of an
\* instrument whose strike lies outside the band, on the wrong side of spot
\* or beyond the 10-strike cap leaves the ratio as it is.
C27_RatioFrame ==
    pc = "timeframe_done" =>
        \A i \in 1..Len(instruments) :
            OutsideFilteredSet(i) =>
                \A oi \in ChangedOI :
                    RatioOf(process_timeframe(
                                [instruments EXCEPT ![i].open_interest = oi],
                                pt_timeframe, pt_band, spot_price))
                        = RatioOf(pt_result[1])

\* With a band of 12 percent around spot 100 the list holds calls at 111
\* (inside the band, beyond the cap), at 120 (outside the band) and at 95
\* (wrong side), all with open interest, and the ratio is positive.
C27_Witness ==
    /\ pc = "timeframe_done" /\ spot_price = 100 /\ pt_band = RatInt(12)
    /\ NearestStrikes(instruments, TRUE, pt_band, spot_price) = 101..110
    /\ \A k \in {95, 111, 120} : \E i \in 1..Len(instruments) :
          /\ instruments[i].strike = k /\ is_call(instruments[i])
          /\ instruments[i].open_interest > 0
    /\ RatioOf(pt_result[1]).n > 0

-----------------------------------------------------------------------------
(* fetch_with_retry, followed by what fetch_index_price and                *)
(* generate_key_levels make of its outcome.  One pass of the for loop      *)
(* meets a response, or an exception in place of one.                      *)

MaxRetries == 3

\* The decoded bodies examined: with and without a "result" member
RetryData ==
    {<<<<"result", <<<<"index_price", 100>>>>>>>>,
     <<<<"result", <<>>>>>>,
     <<<<"index_price", 100>>>>}

\* What one pass meets.  raised: "none", "Exception" (session.get or the
\* sleep before it raises an exception "except Exception" catches) or
\* "BaseException" (one it does not catch, such as the cancellation of the
\* task).  readable: response.json() and data.get return without raising.
RetryMeets ==
    {[raised |-> "none", status |-> 200, readable |-> TRUE, data |-> dt] :
        dt \in RetryData}
    \cup {[raised |-> "none", status |-> 200, readable |-> FALSE, data |-> <<>>]}
    \cup {[raised |-> "none", status |-> st, readable |-> FALSE, data |-> <<>>] :
            st \in {429, 500}}
    \cup {[raised |-> e, status |-> 0, readable |-> FALSE, data |-> <<>>] :
            e \in {"Exception", "BaseException"}}

\* The pass caught an exception: one raised before the response, or one
\* raised by response.json() / data.get on a response with status 200
PassCaught(met) ==
    \/ met.raised = "Exception"
    \/ met.raised = "none" /\ met.status = 200 /\ ~met.readable

\* One pass with "raise" in the except clause whatever the attempt
fetch_with_retry_pass_raise_always(att, maxr, met) ==
    IF met.raised = "BaseException" THEN [state |-> "raised", value |-> <<>>]
    ELSE IF PassCaught(met) THEN [state |-> "raised", value |-> <<>>]
    ELSE IF met.status = 200
         THEN [state |-> "returned", value |-> DictGet(met.data, "result", met.data)]
    ELSE IF att + 1 >= maxr THEN [state |-> "returned", value |-> <<>>]
    ELSE [state |-> "running", value |-> <<>>]

\* One pass without the return in the branch of status 200
fetch_with_retry_pass_no_return(att, maxr, met) ==
    IF met.raised = "BaseException" THEN [state |-> "raised", value |-> <<>>]
    ELSE IF PassCaught(met)
         THEN IF att = maxr - 1 THEN [state |-> "raised", value |-> <<>>]
              ELSE [state |-> "running", value |-> <<>>]
    ELSE IF att + 1 >= maxr THEN [state |-> "returned", value |-> <<>>]
    ELSE [state |-> "running", value |-> <<>>]

\* One pass of "for attempt in range(max_retries)": how the call stands
\* after it.  After the last pass the loop ends and {} is returned.
fetch_with_retry_pass(att, maxr, met) ==
    IF met.raised = "BaseException" THEN [state |-> "raised", value |-> <<>>]
    ELSE IF PassCaught(met)
         THEN IF att = maxr - 1 THEN [state |-> "raised", value |-> <<>>]
              ELSE [state |-> "running", value |-> <<>>]
    ELSE IF met.status = 200
         THEN [state |-> "returned", value |-> DictGet(met.data, "result", met.data)]
    ELSE IF att + 1 >= maxr THEN [state |-> "returned", value |-> <<>>]
    ELSE [state |-> "running", value |-> <<>>]

RetryPcAfter(state) ==
    CASE state = "running" -> "retry"
      [] state = "returned" -> "retry_returned"
      [] state = "raised" -> "retry_raised"

RetryPass ==
    /\ pc = "retry"
    /\ attempt < max_retries
    /\ \E met \in RetryMeets :
          /\ responses' = Append(responses, met)
          /\ retry_result' = fetch_with_retry_pass(attempt, max_retries, met)
    /\ attempt' = attempt + 1
    /\ pc' = RetryPcAfter(retry_result'.state)
    /\ UNCHANGED <<now, max_retries, genVars, groupVars, filterVars, tradeVars,
                   confVars, evalVars>>

\* range(max_retries) is empty: "return {}" at once
RetryNoPass ==
    /\ pc = "retry"
    /\ attempt = 0 /\ max_retries <= 0
    /\ retry_result' = [state |-> "returned", value |-> <<>>]
    /\ pc' = "retry_returned"
    /\ UNCHANGED <<now, max_retries, attempt, responses, genVars, groupVars,
                   filterVars, tradeVars, confVars, evalVars>>

\* fetch_index_price: return result.get("index_price", 0)
IndexPriceFromResult ==
    /\ pc = "retry_returned"
    /\ spot_price' = DictGet(retry_result.value, "index_price", 0)
    /\ pc' = "spot_check"
    /\ UNCHANGED <<now, fetches, stats_24h, instruments, futures_trades,
                   options_trades, hvl_levels, option_analysis, flow_levels,
                   all_levels, key_levels, error, groupVars, filterVars,
                   tradeVars, confVars, evalVars, retryVars>>

\* Neither fetch_index_price nor generate_key_levels catches the exception
IndexPriceRaises ==
    /\ pc = "retry_raised"
    /\ pc' = "failed"
    /\ error' = "fetch_index_price"
    /\ UNCHANGED <<now, spot_price, fetches, stats_24h, instruments, futures_trades,
                   options_trades, hvl_levels, option_analysis, flow_levels,
                   all_levels, key_levels, groupVars, filterVars, tradeVars,
                   confVars, evalVars, retryVars>>

InitRetry ==
    /\ now = FirstDay * HoursPerDay
    /\ pc = "retry"
    /\ spot_price = 0
    /\ instruments = <<>>
    /\ GenIdle /\ GroupIdle /\ FilterIdle /\ TradeIdle /\ ConfIdle
    /\ EvalIdle
    /\ max_retries \in 0..MaxRetries
    /\ attempt = 0
    /\ responses = <<>>
    /\ retry_result = [state |-> "running", value |-> <<>>]

NextRetry ==
    \/ RetryPass
    \/ RetryNoPass
    \/ IndexPriceFromResult
    \/ IndexPriceRaises
    \/ CheckSpotAndGather

\* Every await of a pass ends: the sleeps are finite and the session has a
\* total timeout, so a pending step is taken.
SpecRetry == InitRetry /\ [][NextRetry]_vars /\ WF_vars(NextRetry)

Readable200(met) == met.raised = "none" /\ met.status = 200 /\ met.readable

RetryPayload(met) == DictGet(met.data, "result", met.data)

\* C28 as stated: fetch_with_retry terminates after at most max_retries
\* requests; the first response with status 200 is the last request and its
\* payload is what the call returns.
C28_First200Returned ==
    /\ [](/\ Len(responses) <= max_retries
          /\ \A i \in 1..Len(responses) :
                (responses[i].raised = "none" /\ responses[i].status = 200) =>
                    /\ i = Len(responses)
                    /\ retry_result.state = "returned")
    /\ <>(retry_result.state # "running")

\* C28: fetch_with_retry terminates after at most max_retries requests,
\* whatever it meets; the first response with status 200 whose body is read
\* without an exception is the last request, and the call returns its
\* payload (the "result" member of the body, or the body itself).
C28_FirstReadable200Returned ==
    /\ [](/\ Len(responses) <= max_retries
          /\ \A i \in 1..Len(responses) :
                Readable200(responses[i]) =>
                    /\ i = Len(responses)
                    /\ retry_result = [state |-> "returned",
                                       value |-> RetryPayload(responses[i])])
    /\ <>(retry_result.state # "running")

\* After a rate limit and a caught exception the third request meets a
\* readable 200 and its result is returned.
C28_Witness ==
    /\ max_retries = 3
    /\ Len(responses) = 3
    /\ responses[1].status = 429
    /\ responses[2].raised = "Exception"
    /\ Readable200(responses[3])
    /\ retry_result = [state |-> "returned", value |-> <<<<"index_price", 100>>>>]

\* The call has ended by raising exactly in the cases given by Last(met)
RaisesExactlyWhen(Last(_)) ==
    LET n == Len(responses)
    IN  retry_result.state = "raised" <=> (n > 0 /\ Last(responses[n]))

\* No 200 was returned and the last pass met a status other than 200
EndsOnStatus ==
    /\ Len(responses) = max_retries /\ max_retries > 0
    /\ responses[max_retries].raised = "none"
    /\ responses[max_retries].status # 200

EmptyResultSurfaces ==
    EndsOnStatus =>
        /\ retry_result = [state |-> "returned", value |-> <<>>]
        /\ pc \in {"retry_returned", "spot_check", "failed"}
        /\ pc = "spot_check" => spot_price = 0
        /\ pc = "failed" => error = "ValueError"

\* C29 as stated: the call raises only when the last attempt raises an
\* exception; an exception on an earlier attempt is followed by another
\* attempt or leaves the call running.
C29_RaisesOnLastAttemptOnly ==
    /\ RaisesExactlyWhen(LAMBDA met :
           Len(responses) = max_retries /\ (PassCaught(met) \/ met.raised # "none"))
    /\ EmptyResultSurfaces

\* C29: the call raises only when the last attempt raises an exception, or
\* when an attempt raises one that is not an Exception (which no attempt
\* catches); an Exception on an earlier attempt is swallowed and followed by
\* another attempt; and when the last attempt ends on a status other than
\* 200 the call returns an empty result, which fetch_index_price turns into
\* spot price 0 and generate_key_levels into its ValueError.
C29_RaisesOnlyUncaught ==
    /\ RaisesExactlyWhen(LAMBDA met :
           \/ met.raised = "BaseException"
           \/ Len(responses) = max_retries /\ PassCaught(met))
    /\ EmptyResultSurfaces

\* An exception on the first attempt was swallowed, the next two attempts
\* were rate limited, and generate_key_levels failed on spot price 0.
C29_Witness ==
    /\ max_retries = 3
    /\ Len(responses) = 3
    /\ responses[1].raised = "Exception"
    /\ responses[2].status = 429 /\ responses[3].status = 429
    /\ retry_result = [state |-> "returned", value |-> <<>>]
    /\ spot_price = 0
    /\ pc = "failed" /\ error = "ValueError"

-----------------------------------------------------------------------------
(* The time windows of the paginated trade fetch *)

\* ceil(H / c): the least n with n * c >= H
StatedChunks(H, c) == CHOOSE n \in 1..H : n * c >= H /\ (n - 1) * c < H

\* Window i (from 0) as stated: [end - min((i + 1) * c, H), end - i * c]
StatedWindow(i, H, c, end) ==
    [start |-> end - (IF (i + 1) * c < H THEN (i + 1) * c ELSE H),
     end |-> end - i * c]

\* C30: for hours_back H > 0 and chunk_hours c > 0 the fetch requests the
\* windows [end - min((i+1)c, H), end - ic], i = 0, 1, ..., in this order
\* (newest first) and, when it returns, exactly ceil(H/c) of them; each
\* window ends where the one requested before it starts, none reaches
\* before end - H, and together they cover [end - H, end] without a gap.
C30_Windows ==
    LET H == hours_back
        c == chunk_hours
        n == Len(requests)
    IN  pc \in {"chunks", "chunks_raised", "chunks_done"} =>
        /\ n <= StatedChunks(H, c)
        /\ pc = "chunks_done" => n = StatedChunks(H, c)
        /\ \A j \in 1..n :
              /\ requests[j].start_timestamp = StatedWindow(j - 1, H, c, end_time).start
              /\ requests[j].end_timestamp = StatedWindow(j - 1, H, c, end_time).end
              /\ requests[j].start_timestamp < requests[j].end_timestamp
              /\ requests[j].start_timestamp >= end_time - H
              /\ j > 1 => requests[j].end_timestamp = requests[j - 1].start_timestamp
        /\ pc = "chunks_done" =>
              \A t \in (end_time - H - 1)..(end_time + 1) :
                  (end_time - H <= t /\ t <= end_time)
                      <=> \E j \in 1..n : /\ requests[j].start_timestamp <= t
                                          /\ t <= requests[j].end_timestamp

\* 3 hours fetched in chunks of 2: the window of the last 2 hours, then the
\* window of the hour before them.
C30_Witness ==
    /\ pc = "chunks_done"
    /\ hours_back = 3 /\ chunk_hours = 2
    /\ Len(requests) = 2
    /\ requests[1].end_timestamp = end_time
    /\ requests[1].start_timestamp = end_time - 2
    /\ requests[2].end_timestamp = end_time - 2
    /\ requests[2].start_timestamp = end_time - 3

=============================================================================
